---------------------------- MODULE Spec2Model ----------------------------
(***************************************************************************)
(* LibrePuff: extraction of a payload hidden by OpenPuff in a chain of     *)
(* carriers.  The module models, from the Rust sources,                    *)
(*   - the embedded-file framing      (librepuff/src/embedded_file.rs),    *)
(*   - the custom CRC32               (librepuff/src/crc32.rs),            *)
(*   - the key chain                  (librepuff/src/chain.rs),            *)
(*   - the bit router                 (librepuff/src/carrier.rs),          *)
(*   - the WAV container parser       (librepuff/src/parser/wav.rs),       *)
(*   - the password validator         (librepuff/src/passwords.rs),        *)
(*   - the orchestrator               (repuff/src/main.rs).                *)
(*                                                                         *)
(* Each component has its own specification (SpecFile, SpecKey, ...): the  *)
(* variables of the other components stay at their idle value.             *)
(*                                                                         *)
(* Machine integers.  TLC's integers are 32-bit signed, so a u32 or usize  *)
(* that may exceed 2^31-1 is kept as the sequence of its base-256 digits,  *)
(* least significant first (the little-endian bytes the code reads), and   *)
(* the 32-bit CRC register as the pair of its 16-bit halves.               *)
(***************************************************************************)
EXTENDS Integers, Sequences, FiniteSets, TLC

VARIABLES
    \* the build: Rust's `+ - *` panic on overflow when overflow checks are
    \* on (the dev profile) and wrap when they are off (the release profile)
    overflow_checks,
    \* embedded_file.rs: EmbeddedFile::from_bits and its caller's input
    bits,          \* the byte vector handed to from_bits
    file,          \* what from_bits returned: None or the EmbeddedFile
    original,      \* the EmbeddedFile parsed before a content byte was changed
    ef_pc,         \* "ready" | "parsed"
    \* chain.rs: decrypt_carrier_chain
    n_carriers,          \* the number of carriers handed to the chain
    carrier_index,       \* i: the carriers decrypted so far
    previous_parameters, \* None or the (prekey, iv) of the previous carrier
    prekey,              \* the last prekey derived (u16)
    key,                 \* the last key derived (u32, little-endian digits)
    chain_pc,            \* "loop" | "returned" | "panicked"
    encrypted_carriers,  \* the carriers handed to the chain, in input order
    chain_passwords,     \* the Passwords handed to the chain
    embeddings,          \* the CarrierEmbeddings pushed so far
    twin,                \* a second call on the same carriers with other Passwords
    \* carrier.rs: from_reader
    whitened_bits,           \* the bit vector parser::wav::parse returned
    selection_level,         \* the BitSelection divisor D
    csprng,                  \* what the CSPRNG seeded with the bit count yields
    whitening_lookup_table,  \* the entries of the table that are read
    unwhitened_bits,         \* the dewhitened bit vector U
    carrier,                 \* what from_reader returned
    car_pc,                  \* "parsed" | "table" | "dewhitened" | "returned" | "panicked"
    \* repuff main.rs: main
    cli,              \* the parsed command line
    passwords,        \* None or the Passwords from_fields built
    carriers,         \* the paths of the carriers pushed so far
    files_read,       \* the number of calls of carrier::from_file
    failed_at,        \* 0 or the position of the carrier from_file failed on
    chain_called,     \* decrypt_carrier_chain has been called
    data_embedding,   \* None or the concatenated data stream
    decoy_embedding,  \* None or the concatenated decoy stream
    parsed,           \* the streams handed to EmbeddedFile::from_bits, in order
    written,          \* the payloads written to the destination
    log,              \* the warnings and errors logged
    exit_code,        \* None or the exit status of the process
    main_pc,          \* "start" | "read" | "parse_data" | "parse_decoy" | "exited"
    \* parser/wav.rs: parse
    input,                    \* the bytes the reader yields
    trailing_zeros,           \* the number of zero bytes it yields after them
    subchunk_ids,             \* "fmt" | "data" | "other" for each subchunk ID read so far
    pos,                      \* the number of bytes consumed from the reader
    chunk_size,               \* None or the declared RIFF ChunkSize (u32 digits)
    data_read,                \* u32 digits
    processed_fmt_subchunk,
    processed_data_subchunk,
    metadata,                 \* block_align and num_channels of the 'fmt ' header
    bit_storage,              \* None or the extracted bits
    wav_result,               \* None or what parse returned
    wav_pc,                   \* "start" | "subchunks" | "returned" | "panicked"
    reader_fault,             \* None or the offset and kind of an I/O error of the reader
    io_error,                 \* None or the kind of the io::Error a read returned
    \* carrier.rs: from_file
    path,             \* whether the file can be opened, and its extension
    file_type,        \* None or the CarrierType of the extension
    from_file_result, \* None or what from_file returned
    from_file_log,    \* the warnings logged
    from_file_pc,     \* "start" | "opened" | "typed" | "read" | "returned" | "panicked"
    \* passwords.rs: compute_hamming_distance
    string_x, string_y, \* the two byte strings
    d_xy,             \* None or compute_hamming_distance(string_x, string_y)
    d_yx,             \* None or compute_hamming_distance(string_y, string_x)
    hd_pc,            \* "start" | "first" | "done"
    \* carrier.rs: the bit_mask loop of generate_whitening_lookup_table
    stream,           \* the residues mod 13 of the get_dword() to come, repeated for ever
    stream_pos,       \* the position in stream of the next one
    masks,            \* bit_mask
    mask_index,       \* index
    whitening_table,  \* None or the entries of the table at some indices
    bm_pc             \* "loop" | "table" | "done"

efVars == <<bits, file, original, ef_pc>>
chainVars == <<n_carriers, carrier_index, previous_parameters, prekey, key, chain_pc,
               encrypted_carriers, chain_passwords, embeddings, twin>>
carVars == <<whitened_bits, selection_level, csprng, whitening_lookup_table,
            unwhitened_bits, carrier, car_pc>>

mainVars == <<cli, passwords, carriers, files_read, failed_at, chain_called, data_embedding,
             decoy_embedding, parsed, written, log, exit_code, main_pc>>
wavVars == <<input, trailing_zeros, subchunk_ids, pos, chunk_size, data_read, processed_fmt_subchunk,
            processed_data_subchunk, metadata, bit_storage, wav_result, wav_pc,
            reader_fault, io_error>>
ffVars == <<path, file_type, from_file_result, from_file_log, from_file_pc>>
hdVars == <<string_x, string_y, d_xy, d_yx, hd_pc>>
bmVars == <<stream, stream_pos, masks, mask_index, whitening_table, bm_pc>>

None == [some |-> FALSE]

vars == <<overflow_checks, efVars, chainVars, carVars, mainVars, wavVars, ffVars, hdVars,
          bmVars>>

\* a component that takes no part in the specification at hand
FileIdle == bits = <<>> /\ file = None /\ original = None /\ ef_pc = "idle"

ChainIdle ==
    /\ n_carriers = 0 /\ carrier_index = 0 /\ previous_parameters = None
    /\ prekey = 0 /\ key = <<0, 0, 0, 0>> /\ chain_pc = "idle"
    /\ encrypted_carriers = <<>> /\ chain_passwords = None /\ embeddings = <<>>
    /\ twin = None

CarrierIdle ==
    /\ whitened_bits = <<>> /\ selection_level = 0 /\ csprng = 0
    /\ whitening_lookup_table = <<>>
    /\ unwhitened_bits = <<>> /\ carrier = None /\ car_pc = "idle"

MainIdle ==
    /\ cli = None /\ passwords = None /\ carriers = <<>> /\ files_read = 0
    /\ failed_at = 0 /\ chain_called = FALSE /\ data_embedding = None
    /\ decoy_embedding = None /\ parsed = <<>> /\ written = <<>> /\ log = {}
    /\ exit_code = None /\ main_pc = "idle"

WavIdle ==
    /\ input = <<>> /\ trailing_zeros = 0 /\ subchunk_ids = <<>>
    /\ pos = 0 /\ chunk_size = None /\ data_read = <<0, 0, 0, 0>>
    /\ processed_fmt_subchunk = FALSE /\ processed_data_subchunk = FALSE
    /\ metadata = None /\ bit_storage = None /\ wav_result = None /\ wav_pc = "idle"
    /\ reader_fault = None /\ io_error = None

FromFileIdle ==
    /\ path = None /\ file_type = None /\ from_file_result = None /\ from_file_log = {}
    /\ from_file_pc = "idle"

HammingIdle ==
    /\ string_x = <<>> /\ string_y = <<>> /\ d_xy = None /\ d_yx = None /\ hd_pc = "idle"

BitMaskIdle ==
    /\ stream = <<>> /\ stream_pos = 0 /\ masks = <<>> /\ mask_index = 0
    /\ whitening_table = None /\ bm_pc = "idle"

-----------------------------------------------------------------------------
(* Machine integers as base-256 digit sequences, least significant first.   *)

RECURSIVE digits(_, _)
\* the w little-endian bytes of n (n < 2^31)
digits(n, w) == IF w = 0 THEN <<>> ELSE <<n % 256>> \o digits(n \div 256, w - 1)

RECURSIVE pad(_, _)
\* zero-extension of a digit sequence to w digits (`as usize`, u32::from)
pad(a, w) == IF Len(a) >= w THEN a ELSE pad(Append(a, 0), w)

\* the most significant non-zero digit's position (0 when the value is 0)
top(a) == IF \A i \in 1..Len(a) : a[i] = 0 THEN 0
          ELSE CHOOSE i \in 1..Len(a) : a[i] # 0 /\ \A j \in (i+1)..Len(a) : a[j] = 0

\* whether the value fits TLC's integers (below 2^24 is all the model needs)
small(a) == top(a) <= 3

RECURSIVE value(_)
\* the value of a digit sequence; only used where small(a)
value(a) == IF a = <<>> THEN 0 ELSE a[1] + 256 * value(Tail(a))

RECURSIVE add_carry(_, _, _)
\* digit-wise sum of two sequences of the same length, with the carry out
\* as one more digit
add_carry(a, b, c) ==
    IF a = <<>> THEN <<c>>
    ELSE <<(a[1] + b[1] + c) % 256>> \o add_carry(Tail(a), Tail(b), (a[1] + b[1] + c) \div 256)

\* a + b at width w = Len(a) = Len(b): [val, overflow]
wadd(a, b) ==
    LET s == add_carry(a, b, 0)
    IN [val |-> SubSeq(s, 1, Len(a)), overflow |-> s[Len(a) + 1] # 0]

RECURSIVE sub_borrow(_, _, _)
sub_borrow(a, b, c) ==
    IF a = <<>> THEN <<c>>
    ELSE <<(a[1] - b[1] - c + 256) % 256>>
         \o sub_borrow(Tail(a), Tail(b), IF a[1] - b[1] - c < 0 THEN 1 ELSE 0)

\* a - b at width w = Len(a) = Len(b): [val, overflow] (overflow: b > a)
wsub(a, b) ==
    LET s == sub_borrow(a, b, 0)
    IN [val |-> SubSeq(s, 1, Len(a)), overflow |-> s[Len(a) + 1] # 0]

RECURSIVE mul_carry(_, _, _)
mul_carry(a, m, c) ==
    IF a = <<>> THEN <<c>>
    ELSE <<(a[1] * m + c) % 256>> \o mul_carry(Tail(a), m, (a[1] * m + c) \div 256)

\* a * m at width Len(a), m a small factor (below 2^16): [val, overflow]
wmul(a, m) ==
    LET s == mul_carry(a, m, 0)
    IN [val |-> SubSeq(s, 1, Len(a)), overflow |-> s[Len(a) + 1] # 0]

RECURSIVE less(_, _)
\* a < b for two digit sequences of the same length
less(a, b) ==
    IF a = <<>> THEN FALSE
    ELSE LET n == Len(a)
         IN IF a[n] # b[n] THEN a[n] < b[n]
            ELSE less(SubSeq(a, 1, n - 1), SubSeq(b, 1, n - 1))

\* a u32 register as its two 16-bit halves <<high, low>>, from the four
\* little-endian bytes of a stored u32
u32_halves(d) == <<d[4] * 256 + d[3], d[2] * 256 + d[1]>>

\* a register as the four little-endian bytes of a stored u32
le_bytes(r) == <<r[2] % 256, r[2] \div 256, r[1] % 256, r[1] \div 256>>

-----------------------------------------------------------------------------
(* crc32.rs                                                                 *)

CRC32_POLYNOMIAL == 39882459   \* 0x2608edb

RECURSIVE xor_bits(_, _)
\* bitwise exclusive or of two naturals, bit by bit
xor_bits(a, b) ==
    IF a = 0 THEN b
    ELSE IF b = 0 THEN a
    ELSE 2 * xor_bits(a \div 2, b \div 2) + ((a + b) % 2)

\* bitwise exclusive or of two naturals below 2^16 (four bits at a time:
\* the evaluation stays shallow)
xor(a, b) ==
      xor_bits(a % 16, b % 16)
    + 16 * xor_bits((a \div 16) % 16, (b \div 16) % 16)
    + 256 * xor_bits((a \div 256) % 16, (b \div 256) % 16)
    + 4096 * xor_bits(a \div 4096, b \div 4096)

\* `<< 1` on a u32 register <<high, low>>, with bit 0 set to low_bit
shl1(r, low_bit) ==
    <<(2 * r[1] + (r[2] \div 32768)) % 65536, ((2 * r[2]) % 65536) + low_bit>>

update_with_bit(crc32, bit) ==
    IF (crc32[1] \div 32768 = 1) # bit
    THEN shl1(<<xor(crc32[1], CRC32_POLYNOMIAL \div 65536),
                xor(crc32[2], CRC32_POLYNOMIAL % 65536)>>, 1)
    ELSE shl1(crc32, 0)

RECURSIVE feed_bits(_, _, _)
\* update_with_bit for bits i, i-1, ..., 0 of byte: `for i in (0..8).rev()`
\* (the register is looked at in every step, which keeps it evaluated)
feed_bits(crc32, byte, i) ==
    IF i < 0 \/ crc32 = <<>> THEN crc32
    ELSE feed_bits(update_with_bit(crc32, (byte \div (2 ^ i)) % 2 = 1), byte, i - 1)

\* a CRC that never feeds bit 0 of a byte
update_with_byte_7bits(crc32, byte) ==
    LET RECURSIVE go(_, _)
        go(c, i) == IF i < 1 THEN c
                    ELSE go(update_with_bit(c, (byte \div (2 ^ i)) % 2 = 1), i - 1)
    IN go(crc32, 7)

update_with_byte(crc32, byte) == feed_bits(crc32, byte, 7)

RECURSIVE fold_bytes(_, _)
fold_bytes(crc32, data) ==
    IF data = <<>> \/ crc32 = <<>> THEN crc32
    ELSE fold_bytes(update_with_byte(crc32, data[1]), Tail(data))

\* compute(data): the register after every byte, from 0xffffffff
compute(data) == fold_bytes(<<65535, 65535>>, data)

-----------------------------------------------------------------------------
(* embedded_file.rs                                                         *)

HEADER_SIZE == 10

\* Cursor::read_u16 / read_u32 <LittleEndian>: the bytes at offset off
read_le(b, off, w) == SubSeq(b, off + 1, off + w)

\* usize is 64 bits: 8 digits
usize(d) == pad(d, 8)

\* from_bits without the CRC comparison
from_bits_no_crc(b) ==
    IF Len(b) < HEADER_SIZE THEN None
    ELSE
      LET filename_length == usize(read_le(b, 0, 2))
          content_size    == usize(read_le(b, 2, 4))
          crc32           == read_le(b, 6, 4)
          size_needed     == wadd(wadd(usize(digits(HEADER_SIZE, 2)), content_size).val,
                                  filename_length).val
      IN IF less(usize(digits(Len(b), 4)), size_needed) THEN None
         ELSE
           LET filename_offset == HEADER_SIZE
               content_offset  == filename_offset + value(filename_length)
               content == SubSeq(b, content_offset + 1, content_offset + value(content_size))
           IN [some |-> TRUE,
               filename |-> SubSeq(b, filename_offset + 1,
                                   filename_offset + value(filename_length)),
               content |-> content,
               crc32 |-> crc32,
               remaining_bytes |-> SubSeq(b, content_offset + value(content_size) + 1, Len(b))]

\* from_bits accepting a frame that ends one byte after the input
from_bits_off_by_one(b) ==
    IF Len(b) < HEADER_SIZE THEN None
    ELSE
      LET filename_length == usize(read_le(b, 0, 2))
          content_size    == usize(read_le(b, 2, 4))
          crc32           == read_le(b, 6, 4)
          size_needed     == wadd(wadd(usize(digits(HEADER_SIZE, 2)), content_size).val,
                                  filename_length).val
      IN IF less(usize(digits(Len(b) + 1, 4)), size_needed) THEN None
         ELSE
           LET filename_offset == HEADER_SIZE
               content_offset  == filename_offset + value(filename_length)
               last == IF content_offset + value(content_size) > Len(b)
                       THEN Len(b) ELSE content_offset + value(content_size)
               content == SubSeq(b, content_offset + 1, last)
           IN IF u32_halves(crc32) # compute(content) THEN None
              ELSE [some |-> TRUE,
                    filename |-> SubSeq(b, filename_offset + 1,
                                        filename_offset + value(filename_length)),
                    content |-> content,
                    crc32 |-> crc32,
                    remaining_bytes |-> SubSeq(b, last + 1, Len(b))]

\* EmbeddedFile::from_bits.  The sum of a u16, a u32 and 10 is below 2^64, so
\* the usize addition neither wraps nor panics whatever the build.
from_bits(b) ==
    IF Len(b) < HEADER_SIZE THEN None
    ELSE
      LET filename_length == usize(read_le(b, 0, 2))
          content_size    == usize(read_le(b, 2, 4))
          crc32           == read_le(b, 6, 4)
          size_needed     == wadd(wadd(usize(digits(HEADER_SIZE, 2)), content_size).val,
                                  filename_length).val
      IN IF less(usize(digits(Len(b), 4)), size_needed) THEN None
         ELSE
           LET filename_offset == HEADER_SIZE
               filename == SubSeq(b, filename_offset + 1,
                                  filename_offset + value(filename_length))
               content_offset == filename_offset + value(filename_length)
               content == SubSeq(b, content_offset + 1, content_offset + value(content_size))
               computed_crc32 == compute(content)
           IN IF u32_halves(crc32) # computed_crc32 THEN None
              ELSE [some |-> TRUE,
                    filename |-> filename,
                    content |-> content,
                    crc32 |-> crc32,
                    remaining_bytes |-> SubSeq(b, content_offset + value(content_size) + 1,
                                               Len(b))]

-----------------------------------------------------------------------------
(* The inputs of from_bits: a header whose three fields are drawn from      *)
(* small sets, followed by up to MaxBody bytes, cut at any length.          *)

MaxName == 1        \* filename lengths 0..MaxName, and 65535
MaxContent == 2     \* content sizes 0..MaxContent+1, and two above 2^31
MaxBody == 3        \* bytes after the header

Alphabet == {0, 255}

RECURSIVE seqs(_, _)
\* the sequences over S of length at most n
seqs(S, n) ==
    IF n = 0 THEN {<<>>}
    ELSE LET shorter == seqs(S, n - 1)
         IN shorter \cup {Append(q, x) : q \in {r \in shorter : Len(r) = n - 1}, x \in S}

FilenameLengths == {digits(n, 2) : n \in 0..MaxName} \cup {<<255, 255>>}

ContentSizes ==
    {digits(n, 4) : n \in 0..(MaxContent + 1)} \cup {<<255, 255, 255, 255>>, <<0, 0, 0, 128>>}

StoredCrcs == {le_bytes(compute(c)) : c \in seqs(Alphabet, MaxContent)} \cup {<<0, 0, 0, 0>>}

Frames ==
    {fl \o cs \o crc \o body :
        fl \in FilenameLengths, cs \in ContentSizes, crc \in StoredCrcs,
        body \in seqs(Alphabet, MaxBody)}

FileInit ==
    /\ \E f \in Frames : \E n \in {0, HEADER_SIZE - 1, Len(f)} : bits = SubSeq(f, 1, n)
    /\ file = None
    /\ original = None
    /\ ef_pc = "ready"

\* the caller hands the byte vector to EmbeddedFile::from_bits
Parse ==
    /\ ef_pc = "ready"
    /\ file' = from_bits(bits)
    /\ ef_pc' = "parsed"
    /\ UNCHANGED <<bits, original>>
    /\ UNCHANGED <<overflow_checks, chainVars, carVars, mainVars, wavVars, ffVars, hdVars, bmVars>>

\* Test scenario 7: one byte of the content region of a parsed frame takes
\* another value; header, filename and length stay as they are.
ChangeContentByte ==
    /\ ef_pc = "parsed"
    /\ file.some
    /\ ~original.some
    /\ \E k \in 1..Len(file.content) : \E v \in 0..255 :
          LET at == HEADER_SIZE + Len(file.filename) + k
          IN /\ v # bits[at]
             /\ bits' = [bits EXCEPT ![at] = v]
    /\ original' = file
    /\ ef_pc' = "ready"
    /\ UNCHANGED file
    /\ UNCHANGED <<overflow_checks, chainVars, carVars, mainVars, wavVars, ffVars, hdVars, bmVars>>

InitFile ==
    FileInit /\ overflow_checks = FALSE /\ ChainIdle /\ CarrierIdle /\ MainIdle /\ WavIdle
    /\ FromFileIdle /\ HammingIdle /\ BitMaskIdle
NextFile == Parse \/ ChangeContentByte
SpecFile == InitFile /\ [][NextFile]_vars

-----------------------------------------------------------------------------
(* Claims about the embedded-file parser (SpecFile).                        *)

\* C3: whenever from_bits(b) returns Some(f), the custom CRC32 of f.content
\* equals f.crc32, and f.crc32 is the little-endian u32 stored at bytes
\* 6..10 of b.
C3_CrcOfReturnedFile ==
    (ef_pc = "parsed" /\ file.some) =>
        /\ compute(file.content) = u32_halves(file.crc32)
        /\ file.crc32 = SubSeq(bits, 7, 10)

\* from_bits has returned a file with a non-empty content
C3_Witness == ef_pc = "parsed" /\ file.some /\ Len(file.content) >= 1

\* the frame announced by the header of b lies within b (a content size of
\* 2^16 or more never does: the inputs are shorter than that)
FrameFits(b) ==
    /\ Len(b) >= 10
    /\ b[5] = 0 /\ b[6] = 0
    /\ 10 + (b[1] + 256 * b[2]) + (b[3] + 256 * b[4]) <= Len(b)

FrameName(b) == [i \in 1..(b[1] + 256 * b[2]) |-> b[10 + i]]
FrameContent(b) == [i \in 1..(b[3] + 256 * b[4]) |-> b[10 + (b[1] + 256 * b[2]) + i]]

\* C4: from_bits(b) returns Some exactly when len(b) >= 10, the announced
\* frame fits in b and the stored crc32 is the CRC of the content; then
\* filename, content and remaining_bytes are the three consecutive slices
\* after the header and 10 + their lengths = len(b).  In every other case
\* it returns None.
C4_FromBitsExactly ==
    ef_pc = "parsed" =>
        /\ file.some <=> (FrameFits(bits)
                          /\ compute(FrameContent(bits)) = u32_halves(SubSeq(bits, 7, 10)))
        /\ file.some =>
              /\ file.filename = FrameName(bits)
              /\ file.content = FrameContent(bits)
              /\ bits = SubSeq(bits, 1, 10) \o file.filename \o file.content
                            \o file.remaining_bytes
              /\ 10 + Len(file.filename) + Len(file.content) + Len(file.remaining_bytes)
                    = Len(bits)

\* from_bits has returned a file with a filename, a content and bytes left
C4_Witness ==
    /\ ef_pc = "parsed" /\ file.some
    /\ Len(file.filename) >= 1 /\ Len(file.content) >= 1 /\ Len(file.remaining_bytes) >= 1

\* C5: once from_bits has succeeded on b, changing the value of one byte of
\* the content region makes from_bits return None.
C5_ChangedContentByteRejected ==
    (ef_pc = "parsed" /\ original.some) => ~file.some

\* a content byte of a parsed frame was changed and the frame parsed again
C5_Witness == ef_pc = "parsed" /\ original.some /\ Len(original.content) >= 2

-----------------------------------------------------------------------------
(* chain.rs: the key chain of decrypt_carrier_chain.                        *)

\* the closure of derive_next_prekey: (iv_value as u16) << 8 when odd
iv_term(iv_value) == IF iv_value % 2 = 1 THEN (iv_value * 256) % 65536 ELSE iv_value

RECURSIVE sum_terms(_, _, _)
\* the sum, in the integers, of the terms of iv[lo..hi] (by halves: the
\* evaluation stays shallow)
sum_terms(iv, lo, hi) ==
    IF lo > hi THEN 0
    ELSE IF lo = hi THEN iv_term(iv[lo])
    ELSE sum_terms(iv, lo, (lo + hi) \div 2) + sum_terms(iv, ((lo + hi) \div 2) + 1, hi)

\* Iterator::sum::<u16>(): the terms are added one by one from 0 in u16.
\* No term is negative, so one of these additions leaves the u16 range
\* exactly when the whole sum does, and the wrapped result is the sum
\* mod 2^16.
sum_u16(iv) ==
    LET sum == sum_terms(iv, 1, Len(iv))
    IN [val |-> sum % 65536, overflow |-> sum > 65535]

\* derive_next_prekey: [val, panic].  An addition that overflows panics in
\* a build with overflow checks and wraps in one without.
derive_next_prekey(previous_prekey, previous_iv) ==
    LET function_of_iv == sum_u16(previous_iv)
        total == previous_prekey + function_of_iv.val
    IN [val |-> total % 65536,
        panic |-> overflow_checks /\ (function_of_iv.overflow \/ total > 65535)]

KEY_OFFSET == 1344420291   \* 0x502239c3

\* derive_key: [val, panic], val the u32 as little-endian digits.
\* u32::try_from(carrier_position) succeeds: the position is below 2^32.
derive_key(carrier_position, prekey_) ==
    LET shifted == <<0, 0, prekey_ % 256, prekey_ \div 256>>   \* prekey * 0x10000
        first == wadd(shifted, digits(KEY_OFFSET, 4))
        second == wadd(first.val, digits(carrier_position, 4))
    IN [val |-> second.val,
        panic |-> overflow_checks /\ (first.overflow \/ second.overflow)]

\* The plaintext IV blocks decrypt_iv may leave: scramble::descramble and
\* multi::decrypt are the external libObfuscate, so any block is possible.
\* A block here is `run` bytes of value `b` followed by zeros.
MaxCarriers == 3
IvRuns == {0, 1, 2, 176, 255, 256}
IvBytes == {1, 2, 255}
DecryptedIvs == {[j \in 1..256 |-> IF j <= run THEN b ELSE 0] : run \in IvRuns, b \in IvBytes}

\* The carrier lists: carrier i holds its encrypted IV and S bytes of data
\* and of decoy, S the number of bits from_reader kept divided by 8.
CarrierSizes == <<40, 16, 24>>
EncryptedCarrier(i) ==
    LET size == CarrierSizes[((i - 1) % Len(CarrierSizes)) + 1]
    IN [iv |-> <<"encrypted iv", i>>, data |-> [bytes |-> size], decoy |-> [bytes |-> size]]

\* Passwords { a, b, c }: two that passwords::from_fields accepts, for the
\* two calls
ChainPasswords ==
    <<[a |-> "password", b |-> "12345678", c |-> "abcdefgh"],
      [a |-> "hgfedcba", b |-> "87654321", c |-> "drowssap"]>>

ChainInit ==
    /\ n_carriers \in 1..MaxCarriers
    /\ carrier_index = 0
    /\ previous_parameters = None
    /\ prekey = 0
    /\ key = <<0, 0, 0, 0>>
    /\ chain_pc = "loop"
    /\ encrypted_carriers = [i \in 1..n_carriers |-> EncryptedCarrier(i)]
    /\ chain_passwords = ChainPasswords[1]
    /\ embeddings = <<>>
    /\ twin = [passwords |-> ChainPasswords[2], previous_parameters |-> None,
               key |-> <<0, 0, 0, 0>>, chain_pc |-> "loop"]

\* what the block decrypt_iv leaves is computed from: it derives the password
\* from the key (format!("{key:010}")) and hands iv, that password and the
\* key to scramble::descramble and multi::decrypt
decrypt_iv_arguments_with_passwords(iv, key_, passwords_) ==
    [iv |-> iv, key |-> key_, passwords |-> passwords_]

decrypt_iv_arguments(iv, key_, passwords_) == [iv |-> iv, key |-> key_]

\* decrypt_content works in place on the Vec<u8>: the ciphers of
\* libObfuscate change the bytes and keep their number
decrypt_content_dropping_padding(content) == [bytes |-> content.bytes - (content.bytes % 16)]

decrypt_content(content) == [bytes |-> content.bytes]

\* the same iteration in the second call: the same build, the same carrier,
\* its own Passwords.  decrypt_iv is a function: from the arguments of the
\* first call it leaves the block it left there.
TwinIteration ==
    LET next_prekey ==
            IF twin.previous_parameters = None THEN [val |-> 0, panic |-> FALSE]
            ELSE derive_next_prekey(twin.previous_parameters.prekey,
                                    twin.previous_parameters.iv)
        next_key == derive_key(carrier_index, next_prekey.val)
    IN [panic |-> next_prekey.panic \/ next_key.panic,
        prekey |-> next_prekey.val,
        key |-> next_key.val,
        arguments |-> decrypt_iv_arguments(encrypted_carriers[carrier_index + 1].iv,
                                           next_key.val, twin.passwords)]

TwinSteps(next, arguments, decrypted_iv) ==
    IF twin.chain_pc # "loop" THEN {twin}
    ELSE IF next.panic THEN {[twin EXCEPT !.chain_pc = "panicked"]}
    ELSE {[twin EXCEPT !.key = next.key,
                       !.previous_parameters =
                           [some |-> TRUE, prekey |-> next.prekey, iv |-> iv]] :
            iv \in IF next.arguments = arguments THEN {decrypted_iv} ELSE DecryptedIvs}

\* one iteration of `for (i, encrypted_carrier) in carriers`: the prekey,
\* the key, the decrypted IV, and the parameters kept for the next carrier
ChainStep ==
    /\ chain_pc = "loop"
    /\ carrier_index < n_carriers
    /\ LET next_prekey ==
               IF previous_parameters = None THEN [val |-> 0, panic |-> FALSE]
               ELSE derive_next_prekey(previous_parameters.prekey, previous_parameters.iv)
           next_key == derive_key(carrier_index, next_prekey.val)
           encrypted_carrier == encrypted_carriers[carrier_index + 1]
           twin_next == TwinIteration
       IN IF next_prekey.panic
          THEN /\ chain_pc' = "panicked"
               /\ twin' \in TwinSteps(twin_next, None, None)
               /\ UNCHANGED <<carrier_index, previous_parameters, prekey, key, embeddings>>
          ELSE IF next_key.panic
          THEN /\ chain_pc' = "panicked"
               /\ prekey' = next_prekey.val
               /\ twin' \in TwinSteps(twin_next, None, None)
               /\ UNCHANGED <<carrier_index, previous_parameters, key, embeddings>>
          ELSE /\ prekey' = next_prekey.val
               /\ key' = next_key.val
               /\ \E iv \in DecryptedIvs :
                     /\ previous_parameters' =
                           [some |-> TRUE, prekey |-> next_prekey.val, iv |-> iv]
                     /\ twin' \in TwinSteps(twin_next,
                                             decrypt_iv_arguments(encrypted_carrier.iv,
                                                                 next_key.val, chain_passwords),
                                             iv)
               /\ embeddings' = Append(embeddings,
                                       [data |-> decrypt_content(encrypted_carrier.data),
                                        decoy |-> decrypt_content(encrypted_carrier.decoy)])
               /\ carrier_index' = carrier_index + 1
               /\ UNCHANGED chain_pc
    /\ UNCHANGED <<n_carriers, encrypted_carriers, chain_passwords, overflow_checks, efVars, carVars, mainVars, wavVars, ffVars, hdVars, bmVars>>

\* the loop is over: `embeddings` is returned
ChainReturn ==
    /\ chain_pc = "loop"
    /\ carrier_index = n_carriers
    /\ chain_pc' = "returned"
    /\ twin' = [twin EXCEPT !.chain_pc = IF @ = "loop" THEN "returned" ELSE @]
    /\ UNCHANGED <<n_carriers, carrier_index, previous_parameters, prekey, key,
                   encrypted_carriers, chain_passwords, embeddings>>
    /\ UNCHANGED <<overflow_checks, efVars, carVars, mainVars, wavVars, ffVars, hdVars, bmVars>>

InitKey ==
    ChainInit /\ overflow_checks \in BOOLEAN /\ FileIdle /\ CarrierIdle /\ MainIdle /\ WavIdle
    /\ FromFileIdle /\ HammingIdle /\ BitMaskIdle
NextKey == ChainStep \/ ChainReturn
SpecKey == InitKey /\ [][NextKey]_vars

RECURSIVE SumOver(_, _)
\* the sum of g(v) * (the number of bytes of iv equal to v) over v in vals,
\* mod 2^16, with g(v) = v << 8 for an odd v and v for an even one
SumOver(iv, vals) ==
    IF vals = {} THEN 0
    ELSE LET v == CHOOSE x \in vals : TRUE
             g == IF v % 2 = 1 THEN 256 * v ELSE v
         IN (g * Cardinality({j \in 1..Len(iv) : iv[j] = v}) + SumOver(iv, vals \ {v})) % 65536

TermSum(iv) == SumOver(iv, {iv[j] : j \in 1..Len(iv)})

\* (p * 2^16 + 0x502239C3 + i) mod 2^32 as little-endian digits; 0x5022 is
\* 20514 and 0x39C3 is 14787
WrappedKey(p, i) ==
    LET low == 14787 + i
        high == (p + 20514 + (low \div 65536)) % 65536
    IN <<low % 256, (low % 65536) \div 256, high % 256, high \div 256>>

\* C6: key-derivation arithmetic wraps at the stated width and never fails:
\* the chain never panics, every prekey after the first is
\* (previous prekey + sum of g(iv[j])) mod 2^16 and every key is
\* (prekey * 2^16 + 0x502239C3 + i) mod 2^32.
C6_KeyDerivationWraps ==
    [][/\ chain_pc' # "panicked"
       /\ carrier_index' = carrier_index + 1 =>
             /\ previous_parameters.some =>
                   prekey' = (previous_parameters.prekey
                                + TermSum(previous_parameters.iv)) % 65536
             /\ key' = WrappedKey(prekey', carrier_index)]_vars

-----------------------------------------------------------------------------
(* carrier.rs: the whitening lookup table.                                  *)

\* What the CSPRNG yields after Csprng::new_with_seed: the residues mod 13
\* of the successive get_dword() and the residue mod 20 of get_byte().  The
\* generator is the external libObfuscate: two of its possible outputs.
CsprngOutputs ==
    <<[dwords |-> <<0, 1, 2, 3, 4, 5, 6, 7, 8, 9, 10, 11, 12>>, byte |-> 3],
      [dwords |-> <<12, 12, 5, 0, 5, 7, 1, 11, 3, 12, 9, 2, 4, 4, 8, 10, 0, 6>>, byte |-> 16]>>

RECURSIVE fill_bit_mask(_, _, _, _)
\* `while index < 13`: the draw at position n of dwords sets its entry of
\* bit_mask to 1 << index when that entry is still 0
fill_bit_mask(bit_mask, index, dwords, n) ==
    IF index >= 13 \/ n > Len(dwords) THEN bit_mask
    ELSE IF bit_mask[dwords[n] + 1] = 0
         THEN fill_bit_mask([bit_mask EXCEPT ![dwords[n] + 1] = 2 ^ (index % 32)],
                            index + 1, dwords, n + 1)
         ELSE fill_bit_mask(bit_mask, index, dwords, n + 1)

\* the twenty rows of bit_assembly_order; k stands for the mask 1 << k
BIT_ASSEMBLY_ORDER ==
    << <<0, 2, 13, 17, 19, 28>>,   <<0, 4, 11, 16, 18, 28>>,
       <<0, 4, 12, 18, 26, 28>>,   <<0, 7, 11, 12, 14, 16>>,
       <<1, 4, 11, 15, 26, 28>>,   <<1, 4, 11, 15, 26, 30>>,
       <<1, 4, 11, 15, 27, 30>>,   <<1, 4, 11, 26, 27, 30>>,
       <<1, 12, 16, 18, 26, 31>>,  <<2, 3, 10, 12, 27, 31>>,
       <<2, 8, 10, 12, 27, 31>>,   <<2, 13, 16, 17, 27, 30>>,
       <<3, 10, 12, 17, 27, 31>>,  <<4, 11, 15, 18, 26, 28>>,
       <<4, 11, 15, 26, 27, 30>>,  <<8, 10, 14, 15, 23, 27>>,
       <<8, 12, 20, 22, 24, 31>>,  <<10, 14, 15, 23, 26, 29>>,
       <<11, 15, 18, 26, 27, 29>>, <<11, 17, 19, 27, 28, 30>> >>

\* bit k of a u32 register <<high, low>>
register_bit(r, k) == IF k >= 16 THEN (r[1] \div (2 ^ (k - 16))) % 2 ELSE (r[2] \div (2 ^ k)) % 2

RECURSIVE crc_of_masked(_, _, _, _)
\* the CRC register after the bits (i & bit_mask[j]) != 0 for j, ..., 12
crc_of_masked(crc32, i, bit_mask, j) ==
    IF j > 13 THEN crc32
    ELSE crc_of_masked(update_with_bit(crc32, (i \div bit_mask[j]) % 2 = 1), i, bit_mask, j + 1)

\* whitening_table[i]: the six bits of the register that the row selects
whitening_entry(i, bit_mask, row) ==
    LET crc32 == crc_of_masked(<<65535, 65535>>, i, bit_mask, 1)
    IN   register_bit(crc32, row[1]) + 2 * register_bit(crc32, row[2])
       + 4 * register_bit(crc32, row[3]) + 8 * register_bit(crc32, row[4])
       + 16 * register_bit(crc32, row[5]) + 32 * register_bit(crc32, row[6])

\* generate_whitening_lookup_table, for the CSPRNG output `out`: of the 8192
\* entries, the ones at the given chunk values (the only ones that are read)
generate_whitening_lookup_table(out, chunks) ==
    LET bit_mask == fill_bit_mask([j \in 1..13 |-> 0], 0, out.dwords, 1)
        bit_assembly_order == BIT_ASSEMBLY_ORDER[out.byte + 1]
    IN [i \in chunks |-> whitening_entry(i, bit_mask, bit_assembly_order)]

-----------------------------------------------------------------------------
(* carrier.rs: from_reader, from the bit vector the parser returned.        *)

\* the 13-bit chunk at chunk_index, first bit most significant
chunk_at(w, chunk_index) ==
    LET b(j) == w[13 * chunk_index + j + 1]
    IN   4096 * b(0) + 2048 * b(1) + 1024 * b(2) + 512 * b(3) + 256 * b(4)
       + 128 * b(5) + 64 * b(6) + 32 * b(7) + 16 * b(8) + 8 * b(9)
       + 4 * b(10) + 2 * b(11) + b(12)

\* the dewhitening loop: six bits per 13-bit chunk, j from 5 down to 0
dewhiten(w, table) ==
    [n \in 1..(6 * (Len(w) \div 13)) |->
        (table[chunk_at(w, (n - 1) \div 6)] \div (2 ^ (5 - ((n - 1) % 6)))) % 2]

MAGIC_VALUE == 2984

\* ((len - MAGIC_VALUE) / divisor) & !0b1111111
selected_bit_count_of(len, divisor) == (((len - MAGIC_VALUE) \div divisor) \div 128) * 128

\* selected_bit_count * divisor: whole groups of divisor bits
take_count_of_whole_groups(selected_bit_count, divisor) ==
    [val |-> wmul(usize(digits(selected_bit_count, 4)), divisor).val, panic |-> FALSE]

\* (selected_bit_count - 1) * divisor + 2 in usize arithmetic
take_count(selected_bit_count, divisor) ==
    LET less_one == wsub(usize(digits(selected_bit_count, 4)), usize(digits(1, 4)))
        product  == wmul(less_one.val, divisor)
        total    == wadd(product.val, usize(digits(2, 4)))
    IN [val |-> total.val,
        panic |-> overflow_checks /\ (less_one.overflow \/ product.overflow \/ total.overflow)]

\* Iterator::take(count) on an iterator with `remaining` items left
taken(count, remaining) ==
    IF less(count, usize(digits(remaining, 4))) THEN value(count) ELSE remaining

\* the bits of u[first + 1 ..] at the offsets i < n with i % divisor = 0
data_bits_of(u, first, n, divisor) ==
    [k \in 1..((n + divisor - 1) \div divisor) |-> u[first + (k - 1) * divisor + 1]]

\* ... with i % divisor = 1
decoy_bits_of(u, first, n, divisor) ==
    [k \in 1..(IF n = 0 THEN 0 ELSE (n + divisor - 2) \div divisor) |->
        u[first + (k - 1) * divisor + 2]]

\* ... with i % divisor > 1, in order
other_bits_of(u, first, n, divisor) ==
    LET full  == n \div divisor
        rest  == n % divisor
        count == full * (divisor - 2) + (IF rest > 2 THEN rest - 2 ELSE 0)
    IN [k \in 1..count |->
          u[first + ((k - 1) \div (divisor - 2)) * divisor + 2 + ((k - 1) % (divisor - 2)) + 1]]

RECURSIVE shift_in(_, _, _, _)
\* bytes[i / 8] <<= 1, |= bit, over the bits lo..hi of one byte (u8 shifts)
shift_in(b, lo, hi, byte) ==
    IF lo > hi THEN byte ELSE shift_in(b, lo + 1, hi, (2 * byte + b[lo]) % 256)

pack_bits(b) ==
    [n \in 1..((Len(b) + 7) \div 8) |->
        shift_in(b, 8 * (n - 1) + 1, IF 8 * n <= Len(b) THEN 8 * n ELSE Len(b), 0)]

\* the part of from_reader after dewhitening
select_bits(u, divisor) ==
    IF Len(u) < MAGIC_VALUE THEN [kind |-> "Err", error |-> "CarrierTooSmall"]
    ELSE LET selected_bit_count == selected_bit_count_of(Len(u), divisor)
             encrypted_iv_bits  == SubSeq(u, 1, IF Len(u) < 8 * 256 THEN Len(u) ELSE 8 * 256)
             first == Len(encrypted_iv_bits)
             count == take_count(selected_bit_count, divisor)
             n     == taken(count.val, Len(u) - first)
         IN IF count.panic THEN [kind |-> "panic"]
            ELSE [kind |-> "Ok",
                  iv |-> [m \in 1..256 |-> shift_in(encrypted_iv_bits, 8 * (m - 1) + 1,
                              IF 8 * m <= first THEN 8 * m ELSE first, 0)],
                  data |-> pack_bits(data_bits_of(u, first, n, divisor)),
                  decoy |-> pack_bits(decoy_bits_of(u, first, n, divisor)),
                  other_bits |-> other_bits_of(u, first, n, divisor)]

\* Inputs: bit vectors of period at most 2, of the lengths around the
\* thresholds of from_reader for each selection level.
MaxChunks == 668
Divisors == 2..8
\* the least number of 13-bit chunks for which S reaches s at divisor d
ChunksFor(s, d) == (MAGIC_VALUE + s * d + 5) \div 6
ChunkCounts(d) ==
    {c \in {0, MAGIC_VALUE \div 6, (MAGIC_VALUE \div 6) + 1, ChunksFor(128, d) - 1,
            ChunksFor(128, d), ChunksFor(256, d)} : c <= MaxChunks}
    \cup (IF d = 8 THEN {MaxChunks} ELSE {})
ParsedInputs ==
    {[pattern |-> <<1>>, spare |-> 0, csprng |-> 1],
     [pattern |-> <<0, 1>>, spare |-> 12, csprng |-> 2]}

CarrierInit ==
    /\ selection_level \in Divisors
    /\ \E c \in ChunkCounts(selection_level), in \in ParsedInputs :
          /\ whitened_bits = [n \in 1..(13 * c + in.spare) |->
                                 in.pattern[((n - 1) % Len(in.pattern)) + 1]]
          /\ csprng = in.csprng
    /\ whitening_lookup_table = <<>>
    /\ unwhitened_bits = <<>>
    /\ carrier = None
    /\ car_pc = "parsed"

\* generate_whitening_lookup_table(whitened_bits.len())
GenerateTable ==
    /\ car_pc = "parsed"
    /\ LET chunks == {chunk_at(whitened_bits, k) : k \in 0..((Len(whitened_bits) \div 13) - 1)}
       IN whitening_lookup_table' = generate_whitening_lookup_table(CsprngOutputs[csprng], chunks)
    /\ car_pc' = "table"
    /\ UNCHANGED <<whitened_bits, selection_level, csprng, unwhitened_bits, carrier>>
    /\ UNCHANGED <<overflow_checks, efVars, chainVars, mainVars, wavVars, ffVars, hdVars, bmVars>>

\* the dewhitening loop
Dewhiten ==
    /\ car_pc = "table"
    /\ unwhitened_bits' = dewhiten(whitened_bits, whitening_lookup_table)
    /\ car_pc' = "dewhitened"
    /\ UNCHANGED <<whitened_bits, selection_level, csprng, whitening_lookup_table, carrier>>
    /\ UNCHANGED <<overflow_checks, efVars, chainVars, mainVars, wavVars, ffVars, hdVars, bmVars>>

\* the size check, the selection and the packing
SelectBits ==
    /\ car_pc = "dewhitened"
    /\ LET r == select_bits(unwhitened_bits, selection_level)
       IN /\ carrier' = r
          /\ car_pc' = IF r.kind = "panic" THEN "panicked" ELSE "returned"
    /\ UNCHANGED <<whitened_bits, selection_level, csprng, whitening_lookup_table, unwhitened_bits>>
    /\ UNCHANGED <<overflow_checks, efVars, chainVars, mainVars, wavVars, ffVars, hdVars, bmVars>>

InitCarrier ==
    CarrierInit /\ overflow_checks \in BOOLEAN /\ FileIdle /\ ChainIdle /\ MainIdle /\ WavIdle
    /\ FromFileIdle /\ HammingIdle /\ BitMaskIdle
NextCarrier == GenerateTable \/ Dewhiten \/ SelectBits
SpecCarrier == InitCarrier /\ [][NextCarrier]_vars

\* S of the claims, from the length of U
SelectedCount(u) == (((Len(u) - 2984) \div selection_level) \div 128) * 128

\* C1: every carrier from_reader returns has 8 * len(data) = 8 * len(decoy)
\* = S, with S = ((len(U) - 2984) / D) & ~127, S = 0 included.
C1_DataAndDecoyHaveSBits ==
    (car_pc = "returned" /\ carrier.kind = "Ok") =>
        /\ 8 * Len(carrier.data) = SelectedCount(unwhitened_bits)
        /\ 8 * Len(carrier.decoy) = SelectedCount(unwhitened_bits)

\* C2: from_reader returns Err(CarrierTooSmall) exactly when len(U) < 2984,
\* and returns Ok, with no other failure, whenever len(U) >= 2984.
C2_TooSmallExactlyBelowMagic ==
    car_pc \in {"returned", "panicked"} =>
        /\ car_pc = "returned"
        /\ (carrier.kind = "Err") = (Len(unwhitened_bits) < 2984)
        /\ carrier.kind = "Err" => carrier.error = "CarrierTooSmall"
        /\ (carrier.kind = "Ok") = (Len(unwhitened_bits) >= 2984)

-----------------------------------------------------------------------------
(* passwords.rs: Passwords::from_fields.  A password is its byte sequence;  *)
(* an Option<&str> is None or [some |-> TRUE, v |-> bytes].                 *)

Some(v) == [some |-> TRUE, v |-> v]

RECURSIVE count_ones(_)
count_ones(x) == IF x = 0 THEN 0 ELSE (x % 2) + count_ones(x \div 2)

RECURSIVE differences_upto(_, _, _)
\* the sum of (c1 ^ c2).count_ones() over the first n positions
differences_upto(password_1, password_2, n) ==
    IF n = 0 THEN 0
    ELSE LET c1 == IF n <= Len(password_1) THEN password_1[n] ELSE 0
             c2 == IF n <= Len(password_2) THEN password_2[n] ELSE 0
         IN count_ones(xor(c1, c2)) + differences_upto(password_1, password_2, n - 1)

\* compute_hamming_distance over the length of password_1 alone
compute_hamming_distance_of_first_length(password_1, password_2) ==
    LET total == Len(password_1)
    IN IF total = 0 THEN [panic |-> TRUE, val |-> 0]
       ELSE [panic |-> FALSE,
             val |-> (differences_upto(password_1, password_2, total) * 100) \div (total * 8)]

\* compute_hamming_distance: the division panics when both are empty
compute_hamming_distance(password_1, password_2) ==
    LET total == IF Len(password_1) > Len(password_2) THEN Len(password_1) ELSE Len(password_2)
    IN IF total = 0 THEN [panic |-> TRUE, val |-> 0]
       ELSE [panic |-> FALSE,
             val |-> (differences_upto(password_1, password_2, total) * 100) \div (total * 8)]

\* the pairs whose distance from_fields computes
distance_pairs(a, b, c) ==
    (IF b.some THEN {<<"A and B", a, b.v>>} ELSE {})
    \cup (IF c.some THEN {<<"A and C", a, c.v>>} ELSE {})
    \cup (IF b.some /\ c.some THEN {<<"B and C", b.v, c.v>>} ELSE {})

from_fields(a, b, c) ==
    LET length_warnings ==
            (IF c.some /\ ~b.some THEN {"password B not specified while password C is"} ELSE {})
            \cup (IF b.some /\ Len(b.v) < 8 THEN {"password B is less than 8 characters long"} ELSE {})
        c_warnings ==
            IF c.some /\ Len(c.v) < 8 THEN {"password C is less than 8 characters long"} ELSE {}
        distance_warnings ==
            {"passwords " \o q[1] \o " are too correlated" : q \in
                {q \in distance_pairs(a, b, c) :
                    LET distance == compute_hamming_distance(q[2], q[3])
                    IN ~distance.panic /\ distance.val < 25}}
    IN IF b.some /\ Len(b.v) > 32
       THEN [kind |-> "Err", error |-> "PasswordTooLong", warnings |-> length_warnings]
       ELSE IF c.some /\ Len(c.v) > 32
       THEN [kind |-> "Err", error |-> "PasswordTooLong",
             warnings |-> length_warnings \cup c_warnings]
       ELSE IF \E q \in distance_pairs(a, b, c) : compute_hamming_distance(q[2], q[3]).panic
       THEN [kind |-> "panic", warnings |-> length_warnings \cup c_warnings]
       ELSE [kind |-> "Ok",
             warnings |-> length_warnings \cup c_warnings \cup distance_warnings,
             passwords |-> [a |-> a, b |-> IF b.some THEN b.v ELSE a,
                            c |-> IF c.some THEN c.v ELSE a]]

-----------------------------------------------------------------------------
(* repuff main.rs: main.                                                    *)

SUCCESS == 0
FAILURE == 1
\* the exit status of a Rust process whose main thread panicked
PANIC_STATUS == 101
\* libObfuscate's bound on the passwords and the nonce string
MAX_PASSW_SIZE == 32

exited(status) == [some |-> TRUE, status |-> status]

\* is_there_duplicate_paths
is_there_duplicate_paths(paths) ==
    \E i \in 1..Len(paths) : \E j \in 1..(i - 1) : paths[i] = paths[j]

\* what carrier::from_file can do with a path: the file system, the
\* extension and the parser decide; a panic comes from from_reader
FromFileOutcomes ==
    {"Ok", "IoError", "UnknownFiletype", "CarrierTooSmall", "panic"}

\* libobfuscate to_password_buffer: CString::new refuses an interior NUL
to_password_buffer_fails(password) == \E n \in 1..Len(password) : password[n] = 0

\* scramble::descramble(..).unwrap() and multi::decrypt(..).unwrap() in
\* decrypt_content: Scramble::new and Multi::new refuse a long password
\* and one that to_password_buffer refuses
decrypt_content_panics(p) ==
    \E password \in {p.c, p.a, p.b} :
        Len(password) > MAX_PASSW_SIZE \/ to_password_buffer_fails(password)

\* the header and the body of an embedded file with a matching CRC
frame_of(filename, content) ==
    digits(Len(filename), 2) \o digits(Len(content), 4) \o le_bytes(compute(content))
        \o filename \o content

\* the streams the decrypted carriers can concatenate to
Embeddings ==
    {<<>>, frame_of(<<97>>, <<1, 2>>), frame_of(<<>>, <<3>>) \o <<0>>,
     [frame_of(<<97>>, <<1, 2>>) EXCEPT ![7] = 0]}

\* output_extracted_file: the outcomes of File::create and write_all
WriteOutcomes(content, destination) ==
    {"ok"} \cup (IF destination = "-" THEN {} ELSE {"create failed"})
           \cup (IF content = <<>> THEN {} ELSE {"write failed"})

MaxPaths == 2
Paths == {"a.wav", "b.wav"}
CarrierLists == UNION {{<<"a.wav">> \o t : t \in seqs(Paths, n)} : n \in 0..(MaxPaths - 1)}
PasswordsA == {<<>>, [n \in 1..8 |-> 97], [n \in 1..8 |-> IF n = 4 THEN 0 ELSE 97],
               [n \in 1..MAX_PASSW_SIZE |-> 97],
               [n \in 1..(MAX_PASSW_SIZE + 1) |-> 97]}
PasswordsB == {None, Some(<<>>), Some([n \in 1..(MAX_PASSW_SIZE + 1) |-> 98])}
PasswordsC == {None, Some([n \in 1..8 |-> 97]), Some([n \in 1..(MAX_PASSW_SIZE + 1) |-> 99])}

\* Cli::parse() returned
MainInit ==
    /\ cli \in [password_a : PasswordsA, password_b : PasswordsB, password_c : PasswordsC,
                output : {"-", "out.bin"}, carriers : CarrierLists]
    /\ passwords = None /\ carriers = <<>> /\ files_read = 0 /\ failed_at = 0
    /\ chain_called = FALSE /\ data_embedding = None /\ decoy_embedding = None
    /\ parsed = <<>> /\ written = <<>> /\ log = {} /\ exit_code = None
    /\ main_pc = "start"

\* lines 97-111: Passwords::from_fields and the duplicate-path warning
CreatePasswords ==
    /\ main_pc = "start"
    /\ LET r == from_fields(cli.password_a, cli.password_b, cli.password_c)
       IN CASE r.kind = "panic" ->
                 /\ log' = log \cup r.warnings
                 /\ exit_code' = exited(PANIC_STATUS) /\ main_pc' = "exited"
                 /\ UNCHANGED passwords
            [] r.kind = "Err" ->
                 /\ log' = log \cup r.warnings \cup {r.error}
                 /\ exit_code' = exited(FAILURE) /\ main_pc' = "exited"
                 /\ UNCHANGED passwords
            [] r.kind = "Ok" ->
                 /\ passwords' = Some(r.passwords)
                 /\ log' = log \cup r.warnings \cup
                        (IF is_there_duplicate_paths(cli.carriers)
                         THEN {"duplicate carriers used"} ELSE {})
                 /\ main_pc' = "read"
                 /\ UNCHANGED exit_code
    /\ UNCHANGED <<cli, carriers, files_read, failed_at, chain_called, data_embedding,
                   decoy_embedding, parsed, written>>
    /\ UNCHANGED <<overflow_checks, efVars, chainVars, carVars, wavVars, ffVars, hdVars, bmVars>>

\* the variant of the loop body that goes on to the next path after an error
ReadCarrierSkippingErrors ==
    /\ main_pc = "read"
    /\ files_read < Len(cli.carriers)
    /\ files_read' = files_read + 1
    /\ \E outcome \in FromFileOutcomes :
          CASE outcome = "Ok" ->
                 /\ carriers' = Append(carriers, cli.carriers[files_read + 1])
                 /\ UNCHANGED <<failed_at, log, exit_code, main_pc>>
            [] outcome = "panic" ->
                 /\ exit_code' = exited(PANIC_STATUS) /\ main_pc' = "exited"
                 /\ UNCHANGED <<carriers, failed_at, log>>
            [] OTHER ->
                 /\ failed_at' = IF failed_at = 0 THEN files_read + 1 ELSE failed_at
                 /\ log' = log \cup {"could not parse: " \o outcome}
                 /\ UNCHANGED <<carriers, exit_code, main_pc>>
    /\ UNCHANGED <<cli, passwords, chain_called, data_embedding, decoy_embedding,
                   parsed, written>>
    /\ UNCHANGED <<overflow_checks, efVars, chainVars, carVars, wavVars, ffVars, hdVars, bmVars>>

\* lines 115-126: one iteration of the loop over cli.carriers
ReadCarrier ==
    /\ main_pc = "read"
    /\ files_read < Len(cli.carriers)
    /\ files_read' = files_read + 1
    /\ \E outcome \in FromFileOutcomes :
          CASE outcome = "Ok" ->
                 /\ carriers' = Append(carriers, cli.carriers[files_read + 1])
                 /\ UNCHANGED <<failed_at, log, exit_code, main_pc>>
            [] outcome = "panic" ->
                 /\ exit_code' = exited(PANIC_STATUS) /\ main_pc' = "exited"
                 /\ UNCHANGED <<carriers, failed_at, log>>
            [] OTHER ->
                 /\ failed_at' = files_read + 1
                 /\ log' = log \cup {"could not parse: " \o outcome}
                 /\ exit_code' = exited(FAILURE) /\ main_pc' = "exited"
                 /\ UNCHANGED carriers
    /\ UNCHANGED <<cli, passwords, chain_called, data_embedding, decoy_embedding,
                   parsed, written>>
    /\ UNCHANGED <<overflow_checks, efVars, chainVars, carVars, wavVars, ffVars, hdVars, bmVars>>

\* lines 128-160: the warnings on the carriers, decrypt_carrier_chain and the
\* concatenation of the embeddings.  The ciphers are libObfuscate's: any
\* pair of streams may come out.  The chain panics on an over-long password
\* and, with overflow checks, where its key arithmetic overflows, which
\* takes a second carrier.
DecryptCarriers ==
    /\ main_pc = "read"
    /\ files_read = Len(cli.carriers)
    /\ chain_called' = TRUE
    /\ \/ /\ \/ decrypt_content_panics(passwords.v)
             \/ overflow_checks /\ Len(carriers) >= 2
          /\ exit_code' = exited(PANIC_STATUS) /\ main_pc' = "exited"
          /\ UNCHANGED <<data_embedding, decoy_embedding>>
       \/ /\ ~decrypt_content_panics(passwords.v)
          /\ \E data \in Embeddings, decoy \in Embeddings :
                /\ data_embedding' = Some(data)
                /\ decoy_embedding' = Some(decoy)
          /\ main_pc' = "parse_data"
          /\ UNCHANGED exit_code
    /\ UNCHANGED <<cli, passwords, carriers, files_read, failed_at, parsed, written, log>>
    /\ UNCHANGED <<overflow_checks, efVars, chainVars, carVars, wavVars, ffVars, hdVars, bmVars>>

\* output_extracted_file, then return ExitCode::SUCCESS: every failure of
\* the destination is unwrapped
OutputAndExit(content) ==
    \E outcome \in WriteOutcomes(content, cli.output) :
        IF outcome = "ok"
        THEN /\ written' = Append(written, content)
             /\ exit_code' = exited(SUCCESS)
        ELSE /\ UNCHANGED written
             /\ exit_code' = exited(PANIC_STATUS)

\* lines 162-172
ParseData ==
    /\ main_pc = "parse_data"
    /\ parsed' = Append(parsed, "data")
    /\ LET data_file == from_bits(data_embedding.v)
       IN IF data_file.some
          THEN /\ OutputAndExit(data_file.content)
               /\ log' = log \cup {"sucessfully extracted data file"}
               /\ main_pc' = "exited"
          ELSE /\ main_pc' = "parse_decoy"
               /\ UNCHANGED <<written, exit_code, log>>
    /\ UNCHANGED <<cli, passwords, carriers, files_read, failed_at, chain_called,
                   data_embedding, decoy_embedding>>
    /\ UNCHANGED <<overflow_checks, efVars, chainVars, carVars, wavVars, ffVars, hdVars, bmVars>>

\* lines 174-188
ParseDecoy ==
    /\ main_pc = "parse_decoy"
    /\ parsed' = Append(parsed, "decoy")
    /\ LET decoy_file == from_bits(decoy_embedding.v)
       IN IF decoy_file.some
          THEN /\ OutputAndExit(decoy_file.content)
               /\ log' = log \cup {"sucessfully extracted decoy file"}
          ELSE /\ log' = log \cup {"could not extract a data or decoy file"}
               /\ exit_code' = exited(FAILURE)
               /\ UNCHANGED written
    /\ main_pc' = "exited"
    /\ UNCHANGED <<cli, passwords, carriers, files_read, failed_at, chain_called,
                   data_embedding, decoy_embedding>>
    /\ UNCHANGED <<overflow_checks, efVars, chainVars, carVars, wavVars, ffVars, hdVars, bmVars>>

InitMain ==
    MainInit /\ overflow_checks \in BOOLEAN /\ FileIdle /\ ChainIdle /\ CarrierIdle /\ WavIdle
    /\ FromFileIdle /\ HammingIdle /\ BitMaskIdle
NextMain == CreatePasswords \/ ReadCarrier \/ DecryptCarriers \/ ParseData \/ ParseDecoy
SpecMain == InitMain /\ [][NextMain]_vars

\* C7: once the carriers are decrypted, the data stream is parsed first and
\* the decoy stream only if the data stream holds no file; a run that found
\* a file has written exactly that payload and exits 0, a run that found
\* none has written nothing and exits 1; no exit status other than 0 or 1.
C7_DataFirstOnePayloadExit0Or1 ==
    data_embedding.some =>
        LET data_file  == from_bits(data_embedding.v)
            decoy_file == from_bits(decoy_embedding.v)
        IN /\ parsed \in {<<>>, <<"data">>, <<"data", "decoy">>}
           /\ Len(parsed) = 2 => ~data_file.some
           /\ main_pc = "exited" =>
                 /\ exit_code.status \in {0, 1}
                 /\ IF data_file.some
                    THEN parsed = <<"data">> /\ written = <<data_file.content>>
                         /\ exit_code.status = 0
                    ELSE IF decoy_file.some
                    THEN written = <<decoy_file.content>> /\ exit_code.status = 0
                    ELSE written = <<>> /\ exit_code.status = 1

\* C8: once carrier::from_file has returned an error for carrier i, no later
\* carrier is read, decrypt_carrier_chain is not called, nothing is written
\* and the run has ended with exit status 1.
C8_ParseErrorIsFatal ==
    failed_at # 0 =>
        /\ files_read = failed_at
        /\ ~chain_called
        /\ written = <<>>
        /\ main_pc = "exited"
        /\ exit_code = exited(1)

\* a run whose second carrier failed to parse, after the first was read
C8_Witness ==
    /\ failed_at = 2
    /\ Len(carriers) = 1
    /\ main_pc = "exited"

\* some password of the command line is longer than 32 bytes
AnyPasswordTooLong ==
    \/ Len(cli.password_a) > 32
    \/ cli.password_b.some /\ Len(cli.password_b.v) > 32
    \/ cli.password_c.some /\ Len(cli.password_c.v) > 32

\* C10: from_fields returns Err(PasswordTooLong) whenever A, B or C is
\* longer than 32 bytes, so no such password reaches decrypt_carrier_chain.
C10_LongPasswordRejected ==
    (main_pc \notin {"idle", "start"} /\ AnyPasswordTooLong) =>
        /\ passwords = None
        /\ "PasswordTooLong" \in log
        /\ exit_code = exited(1)
        /\ ~chain_called

-----------------------------------------------------------------------------
(* parser/wav.rs: parse, over a reader that yields the bytes of `input`.    *)
(* read_exact at end of input consumes what is left and fails with          *)
(* UnexpectedEof, which parser.rs turns into InvalidFormat.                 *)

RIFF == <<82, 73, 70, 70>>
WAVE == <<87, 65, 86, 69>>
FMT  == <<102, 109, 116, 32>>
DATA == <<100, 97, 116, 97>>

to_ascii_lowercase(b) == IF b >= 65 /\ b <= 90 THEN b + 32 ELSE b
eq_ignore_ascii_case(x, y) ==
    Len(x) = Len(y) /\ \A n \in 1..Len(x) : to_ascii_lowercase(x[n]) = to_ascii_lowercase(y[n])

\* the reader yields the bytes of input and then trailing_zeros zero bytes
reader_len == Len(input) + trailing_zeros
byte_at(n) == IF n <= Len(input) THEN input[n] ELSE 0
bytes_at(p, n) == [m \in 1..n |-> byte_at(p + m)]
u16_at(p) == byte_at(p + 1) + 256 * byte_at(p + 2)
u32(n) == digits(n, 4)

RECURSIVE div_digits(_, _, _)
\* the quotient of a little-endian digit sequence by m, from the top digit
div_digits(a, m, remainder) ==
    IF a = <<>> THEN <<>>
    ELSE LET n == Len(a)
             cur == remainder * 256 + a[n]
         IN div_digits(SubSeq(a, 1, n - 1), m, cur % m) \o <<cur \div m>>

\* should_choose_sample(sample, 4) with the sign bit counted
should_choose_sample_with_sign(sample) ==
    LET ones == count_ones(sample \div 8)
    IN ones > 0 /\ ones <= 10

\* should_choose_sample(sample, 4)
should_choose_sample(sample) ==
    LET ones == count_ones((sample % 32768) \div 8)
    IN ones > 0 /\ ones <= 10

\* the low bits of the chosen ones among the samples_count samples at p
extract_bits_from_data(p, samples_count) ==
    LET samples == [n \in 1..samples_count |-> u16_at(p + 2 * (n - 1))]
        chosen  == SelectSeq(samples, should_choose_sample)
    IN [n \in 1..Len(chosen) |-> chosen[n] % 2]

\* the bytes the reader hands out before a read fails, and the kind of the
\* io::Error of that read: read_exact reports the end of the input as
\* UnexpectedEof
readable ==
    IF reader_fault.some /\ reader_fault.v.at < reader_len
    THEN reader_fault.v.at ELSE reader_len
reader_error ==
    IF reader_fault.some /\ reader_fault.v.at < reader_len
    THEN reader_fault.v.kind ELSE "UnexpectedEof"

\* parser.rs, From<io::Error> for ParsingError
parsing_error_from_io_error_keeping_eof(kind) == [error |-> "IoError", io |-> Some(kind)]
parsing_error_from_io_error(kind) ==
    IF kind = "UnexpectedEof" THEN [error |-> "InvalidFormat", io |-> None]
    ELSE [error |-> "IoError", io |-> Some(kind)]

\* lib.rs, From<ParsingError> for Error
error_from_parsing_error(e) ==
    IF e.error = "InvalidFormat" THEN [error |-> "UnknownFiletype", io |-> None]
    ELSE [error |-> "IoError", io |-> e.io]

InvalidFormat(p) ==
    [kind |-> "Err", error |-> "InvalidFormat", io |-> None, pos |-> p, failed |-> None]
\* a read that fails: the `?` converts the io::Error and returns
ReadFailed ==
    LET e == parsing_error_from_io_error(reader_error)
    IN [kind |-> "Err", error |-> e.error, io |-> e.io, pos |-> readable,
        failed |-> Some(reader_error)]
Panicked(p) == [kind |-> "panic", pos |-> p]
Continue(p, read, bits_, metadata_) ==
    [kind |-> "continue", pos |-> p, data_read |-> read, bits |-> bits_, metadata |-> metadata_]

\* the number of read_u8 of `for _ in from..min(to, data_size)`
skipped(from, to, data_size) ==
    LET upper == IF less(to, data_size) THEN to ELSE data_size
    IN IF less(from, upper) THEN value(wsub(upper, from).val) ELSE 0

\* lines 111-161, after the subchunk id: p and read are the position and
\* data_read after it
fmt_subchunk(p, read, data_size) ==
    IF processed_fmt_subchunk THEN InvalidFormat(p)
    ELSE IF p + 4 > readable THEN ReadFailed
    ELSE IF bytes_at(p, 4)[4] >= 128 THEN InvalidFormat(p + 4)
    ELSE IF p + 20 > readable THEN ReadFailed
    ELSE
      LET subchunk_size == bytes_at(p, 4)
          audio_format  == u16_at(p + 4)
          num_channels  == u16_at(p + 6)
          block_align   == u16_at(p + 16)
          after         == p + 20
      IN IF num_channels = 0 THEN Panicked(after)
         ELSE
           LET times_8 == (block_align \div num_channels) * 8
               computed_bits_per_sample == times_8 % 65536
               read_1 == wadd(read, u32(4 + 16))
               sum    == wadd(read_1.val, subchunk_size)
               to     == wsub(sum.val, u32(16))
               n      == skipped(read_1.val, to.val, data_size)
               rest   == wsub(subchunk_size, u32(16))
               read_2 == wadd(read_1.val, rest.val)
           IN IF overflow_checks /\ times_8 > 65535 THEN Panicked(after)
              ELSE IF audio_format # 1 \/ computed_bits_per_sample # 16
              THEN InvalidFormat(after)
              ELSE IF overflow_checks /\ (read_1.overflow \/ sum.overflow \/ to.overflow)
              THEN Panicked(after)
              ELSE IF n > readable - after THEN ReadFailed
              ELSE IF overflow_checks /\ (rest.overflow \/ read_2.overflow)
              THEN Panicked(after + n)
              ELSE Continue(after + n, read_2.val, bit_storage,
                            Some([block_align |-> block_align,
                                  num_channels |-> num_channels]))

\* lines 164-171, without the test of processed_data_subchunk
data_before_fmt == ~processed_fmt_subchunk
\* lines 164-171: a data subchunk that is not the first one after the fmt
data_out_of_place == processed_data_subchunk \/ ~processed_fmt_subchunk

\* lines 162-191
data_subchunk(p, read) ==
    IF data_out_of_place THEN InvalidFormat(p)
    ELSE IF p + 4 > readable THEN ReadFailed
    ELSE
      LET subchunk_size == bytes_at(p, 4)
          after  == p + 4
          read_1 == wadd(read, u32(4))
          num_samples_per_channel == div_digits(subchunk_size, metadata.v.block_align, 0)
          num_samples == wmul(num_samples_per_channel, metadata.v.num_channels)
          read_2 == wadd(read_1.val, subchunk_size)
      IN IF overflow_checks /\ read_1.overflow THEN Panicked(after)
         ELSE IF subchunk_size = u32(0) THEN InvalidFormat(after)
         ELSE IF overflow_checks /\ num_samples.overflow THEN Panicked(after)
         ELSE IF num_samples.val = u32(0) THEN InvalidFormat(after)
         ELSE IF less(u32((readable - after) \div 2), num_samples.val)
         THEN ReadFailed
         ELSE IF overflow_checks /\ read_2.overflow
         THEN Panicked(after + 2 * value(num_samples.val))
         ELSE Continue(after + 2 * value(num_samples.val), read_2.val,
                       Some(extract_bits_from_data(after, value(num_samples.val))), metadata)

\* lines 192-205
other_subchunk(p, read, data_size) ==
    IF p + 4 > readable THEN ReadFailed
    ELSE
      LET subchunk_size == bytes_at(p, 4)
          after  == p + 4
          read_1 == wadd(read, u32(4))
          to     == wadd(read_1.val, subchunk_size)
          n      == skipped(read_1.val, to.val, data_size)
      IN IF overflow_checks /\ read_1.overflow THEN Panicked(after)
         ELSE IF subchunk_size[4] >= 128 THEN InvalidFormat(after)
         ELSE IF overflow_checks /\ to.overflow THEN Panicked(after)
         ELSE IF n > readable - after THEN ReadFailed
         ELSE Continue(after + n, to.val, bit_storage, metadata)

\* Inputs: a RIFF header followed by subchunks from a menu, with declared
\* chunk sizes around the size of what follows.
MaxSubchunks == 2
fmt_fields(audio_format, num_channels, block_align, bits_per_sample) ==
    digits(audio_format, 2) \o digits(num_channels, 2) \o u32(0) \o u32(0)
        \o digits(block_align, 2) \o digits(bits_per_sample, 2)
SubchunkMenu ==
    {FMT \o u32(16) \o fmt_fields(1, 1, 2, 16),
     FMT \o u32(18) \o fmt_fields(1, 2, 4, 16) \o <<0, 0>>,
     FMT \o u32(14) \o fmt_fields(1, 1, 2, 16),
     FMT \o u32(16) \o fmt_fields(1, 0, 2, 16),
     <<68, 65, 84, 65>> \o u32(4) \o <<8, 0, 9, 0>>,
     DATA \o u32(6) \o <<9, 0>>,
     DATA \o u32(0),
     <<76, 73, 83, 84>> \o u32(2) \o <<0, 0>>,
     <<76, 73, 83, 84>> \o <<255, 255, 255, 127>>}
RECURSIVE Payloads(_)
Payloads(n) ==
    IF n = 0 THEN {<<>>} ELSE {<<>>} \cup {c \o t : c \in SubchunkMenu, t \in Payloads(n - 1)}
Headers == {<<RIFF, WAVE>>, <<<<114, 105, 102, 102>>, WAVE>>, <<<<82, 73, 70, 88>>, WAVE>>,
            <<RIFF, <<87, 65, 86, 88>>>>}
\* A file whose data subchunk declares 2^31 bytes: with a block_align of
\* 57346 the subchunk holds 37447 samples, all of them zero.
LargeBlockAlign == 57346
LargeDataSize == <<0, 0, 0, 128>>
LargeSampleCount == value(div_digits(LargeDataSize, LargeBlockAlign, 0))
LargeData ==
    FMT \o u32(16) \o fmt_fields(1, 1, LargeBlockAlign, 16) \o DATA \o LargeDataSize
\* A file whose data subchunk declares 2^32 - 32 bytes, followed by zeros:
\* the samples of the subchunk and six subchunks of ID 0 and size 0
WrappingDataSize == <<224, 255, 255, 255>>
WrappingSampleCount == value(div_digits(WrappingDataSize, LargeBlockAlign, 0))
WrappingData ==
    FMT \o u32(16) \o fmt_fields(1, 1, LargeBlockAlign, 16) \o DATA \o WrappingDataSize
\* A fmt subchunk that declares one byte more than the 0x400000 bytes of
\* OpenPuff's buffer
OPENPUFF_FMT_BUFFER == <<0, 0, 64, 0>>
OversizeFmt == FMT \o <<1, 0, 64, 0>> \o fmt_fields(1, 1, 2, 16)
\* Longer sequences of subchunks, with unrecognized ones in between
FmtMono == FMT \o u32(16) \o fmt_fields(1, 1, 2, 16)
DataTwoSamples == DATA \o u32(4) \o <<8, 0, 9, 0>>
ListTwo == <<76, 73, 83, 84>> \o u32(2) \o <<0, 0>>
SubchunkSequences ==
    {FmtMono \o DataTwoSamples \o DataTwoSamples,
     FmtMono \o ListTwo \o DataTwoSamples \o ListTwo \o DataTwoSamples,
     FmtMono \o ListTwo \o FmtMono,
     FmtMono \o DataTwoSamples \o ListTwo \o FmtMono,
     ListTwo \o ListTwo \o DataTwoSamples \o FmtMono,
     ListTwo \o FmtMono \o ListTwo \o DataTwoSamples \o ListTwo}
\* Data subchunks whose declared size is not a multiple of block_align, and
\* whose block_align is more than two bytes per channel, before a LIST
UnalignedData ==
    {FMT \o u32(16) \o fmt_fields(1, 2, 4, 16)
         \o DATA \o u32(6) \o <<8, 0, 9, 0, 8, 0>> \o ListTwo,
     FMT \o u32(16) \o fmt_fields(1, 2, 5, 16)
         \o DATA \o u32(10) \o <<8, 0, 9, 0, 8, 0, 9, 0, 8, 0>> \o ListTwo}
\* Data subchunks of up to MaxSamples samples with 0, 1, 10, 11 and 12 ones
\* among the bits 3..14, with and without the sign bit and bit 0
MaxSamples == 2
Samples == {0, 7, 8, 9, 32768, 32777, 8184, 8185, 16376, 32760, 32761, 40953, 65535}
RECURSIVE SampleBytes(_)
SampleBytes(n) ==
    IF n = 0 THEN {<<>>}
    ELSE {<<sample % 256, sample \div 256>> \o t : sample \in Samples, t \in SampleBytes(n - 1)}
SampleData ==
    UNION {{FmtMono \o DATA \o u32(2 * n) \o t : t \in SampleBytes(n)} : n \in 1..MaxSamples}
DeclaredSizes(n) ==
    {u32(3), u32(4), u32(5), u32(4 + n), u32(4 + n + 2), <<0, 0, 0, 128>>}
        \cup (IF n >= 2 THEN {u32(4 + n - 2)} ELSE {})

\* where the reader may fail, and with which kind of io::Error
FaultOffsets == {0, 6, 10, 14, 18, 30, 38, 42}
FaultKinds == {"Other", "UnexpectedEof"}

WavInit ==
    /\ \/ /\ \E h \in Headers, t \in Payloads(MaxSubchunks) :
                \E size \in DeclaredSizes(Len(t)) : input = h[1] \o size \o h[2] \o t
          /\ trailing_zeros = 0
          /\ \/ reader_fault = None
             \/ /\ Len(input) >= 12 /\ SubSeq(input, 1, 4) = RIFF
                /\ bytes_at(4, 4) = u32(Len(input) - 8)
                /\ \E at \in FaultOffsets, kind \in FaultKinds :
                       at < Len(input) /\ reader_fault = Some([at |-> at, kind |-> kind])
       \/ /\ \E n \in {0, 2, 6, 10} : input = SubSeq(RIFF \o u32(4) \o WAVE, 1, n)
          /\ trailing_zeros = 0 /\ reader_fault = None
       \/ /\ input = RIFF \o u32(4 + Len(LargeData) + 2 * LargeSampleCount) \o WAVE
                        \o LargeData
          /\ trailing_zeros = 2 * LargeSampleCount /\ reader_fault = None
       \/ /\ input = RIFF \o u32(4 + 48) \o WAVE \o WrappingData
          /\ trailing_zeros = 2 * WrappingSampleCount + 48 /\ reader_fault = None
       \/ /\ \E t \in SubchunkSequences \cup SampleData \cup UnalignedData :
                input = RIFF \o u32(4 + Len(t)) \o WAVE \o t
          /\ trailing_zeros = 0 /\ reader_fault = None
       \/ /\ \E size \in {u32(4 + Len(OversizeFmt)), <<0, 0, 128, 0>>} :
                input = RIFF \o size \o WAVE \o OversizeFmt
          /\ trailing_zeros = 0 /\ reader_fault = None
    /\ subchunk_ids = <<>>
    /\ pos = 0 /\ chunk_size = None /\ data_read = u32(0)
    /\ processed_fmt_subchunk = FALSE /\ processed_data_subchunk = FALSE
    /\ metadata = None /\ bit_storage = None /\ wav_result = None /\ wav_pc = "start"
    /\ io_error = None

data_size == wsub(chunk_size.v, u32(4)).val

\* lines 72-104: the RIFF header
riff_header ==
    IF 4 > readable THEN ReadFailed
    ELSE IF ~eq_ignore_ascii_case(bytes_at(0, 4), RIFF) THEN InvalidFormat(4)
    ELSE IF 8 > readable THEN ReadFailed
    ELSE IF bytes_at(4, 4)[4] >= 128 \/ less(bytes_at(4, 4), u32(4)) THEN InvalidFormat(8)
    ELSE IF 12 > readable THEN ReadFailed
    ELSE IF ~eq_ignore_ascii_case(bytes_at(8, 4), WAVE) THEN InvalidFormat(12)
    ELSE Continue(12, u32(0), None, None)

RiffHeader ==
    /\ wav_pc = "start"
    /\ LET r == riff_header
       IN /\ chunk_size' = IF r.pos >= 8 /\ readable >= 8 THEN Some(bytes_at(4, 4)) ELSE None
          /\ pos' = r.pos
          /\ IF r.kind = "continue"
             THEN wav_pc' = "subchunks" /\ UNCHANGED <<wav_result, io_error>>
             ELSE /\ wav_pc' = "returned"
                  /\ wav_result' = [kind |-> "Err", error |-> r.error, io |-> r.io]
                  /\ io_error' = r.failed
    /\ UNCHANGED <<input, trailing_zeros, subchunk_ids, data_read, processed_fmt_subchunk, processed_data_subchunk,
                   metadata, bit_storage, reader_fault>>
    /\ UNCHANGED <<overflow_checks, efVars, chainVars, carVars, mainVars, ffVars, hdVars, bmVars>>

\* what one pass through the loop body leaves behind
Iteration(r) ==
    /\ pos' = r.pos
    /\ IF r.kind = "continue"
       THEN /\ data_read' = r.data_read /\ bit_storage' = r.bits /\ metadata' = r.metadata
            /\ UNCHANGED <<wav_result, wav_pc, io_error>>
       ELSE /\ wav_pc' = IF r.kind = "panic" THEN "panicked" ELSE "returned"
            /\ wav_result' = IF r.kind = "panic" THEN [kind |-> "panic"]
                             ELSE [kind |-> "Err", error |-> r.error, io |-> r.io]
            /\ io_error' = IF r.kind = "panic" THEN None ELSE r.failed
            /\ UNCHANGED <<data_read, bit_storage, metadata>>
    /\ UNCHANGED <<input, trailing_zeros, chunk_size, reader_fault>>
    /\ UNCHANGED <<overflow_checks, efVars, chainVars, carVars, mainVars, ffVars, hdVars, bmVars>>

InLoop == wav_pc = "subchunks" /\ less(data_read, data_size)

\* the read of the subchunk id meets the end of the input
SubchunkIdEof ==
    /\ InLoop
    /\ pos + 4 > readable
    /\ Iteration(ReadFailed)
    /\ UNCHANGED <<processed_fmt_subchunk, processed_data_subchunk, subchunk_ids>>

FmtSubchunk ==
    /\ InLoop
    /\ pos + 4 <= readable
    /\ eq_ignore_ascii_case(bytes_at(pos, 4), FMT)
    /\ Iteration(fmt_subchunk(pos + 4, wadd(data_read, u32(4)).val, data_size))
    /\ processed_fmt_subchunk' = TRUE
    /\ subchunk_ids' = Append(subchunk_ids, "fmt")
    /\ UNCHANGED processed_data_subchunk

DataSubchunk ==
    /\ InLoop
    /\ pos + 4 <= readable
    /\ eq_ignore_ascii_case(bytes_at(pos, 4), DATA)
    /\ Iteration(data_subchunk(pos + 4, wadd(data_read, u32(4)).val))
    /\ processed_data_subchunk' = (processed_fmt_subchunk \/ processed_data_subchunk)
    /\ subchunk_ids' = Append(subchunk_ids, "data")
    /\ UNCHANGED processed_fmt_subchunk

OtherSubchunk ==
    /\ InLoop
    /\ pos + 4 <= readable
    /\ ~eq_ignore_ascii_case(bytes_at(pos, 4), FMT)
    /\ ~eq_ignore_ascii_case(bytes_at(pos, 4), DATA)
    /\ Iteration(other_subchunk(pos + 4, wadd(data_read, u32(4)).val, data_size))
    /\ subchunk_ids' = Append(subchunk_ids, "other")
    /\ UNCHANGED <<processed_fmt_subchunk, processed_data_subchunk>>

\* lines 208-214: the loop is over
ReturnBits ==
    /\ wav_pc = "subchunks"
    /\ ~less(data_read, data_size)
    /\ wav_result' = [kind |-> "Ok", bits |-> IF bit_storage.some THEN bit_storage.v ELSE <<>>]
    /\ wav_pc' = "returned"
    /\ UNCHANGED <<input, trailing_zeros, subchunk_ids, pos, chunk_size, data_read, processed_fmt_subchunk,
                   processed_data_subchunk, metadata, bit_storage, reader_fault, io_error>>
    /\ UNCHANGED <<overflow_checks, efVars, chainVars, carVars, mainVars, ffVars, hdVars, bmVars>>

InitWav ==
    WavInit /\ overflow_checks \in BOOLEAN /\ FileIdle /\ ChainIdle /\ CarrierIdle /\ MainIdle
    /\ FromFileIdle /\ HammingIdle /\ BitMaskIdle
NextWav ==
    RiffHeader \/ SubchunkIdEof \/ FmtSubchunk \/ DataSubchunk \/ OtherSubchunk \/ ReturnBits
SpecWav == InitWav /\ [][NextWav]_vars

\* C9: wav::parse consumes at most 8 + S bytes of the reader, S being the
\* declared RIFF chunk size.
C9_NoReadBeyondRiffChunk ==
    chunk_size.some =>
        ~less(wadd(usize(chunk_size.v), usize(u32(8))).val, usize(u32(pos)))

\* C11: for A, optional B and optional C all of at most 32 bytes, empty,
\* short and correlated ones included, from_fields returns Ok with a = A,
\* b = B if given else A, c = C if given else A.
C11_WeakPasswordsAccepted ==
    (main_pc \notin {"idle", "start"} /\ ~AnyPasswordTooLong) =>
        passwords = Some([a |-> cli.password_a,
                          b |-> IF cli.password_b.some THEN cli.password_b.v
                                ELSE cli.password_a,
                          c |-> IF cli.password_c.some THEN cli.password_c.v
                                ELSE cli.password_a])

\* C12: an extraction whose password A, B or C holds an interior NUL byte
\* ends with the error ContainsNulByte, not with an abort in
\* decrypt_carrier_chain.
C12_NulByteIsAnErrorValue ==
    (chain_called /\ \E q \in {passwords.v.a, passwords.v.b, passwords.v.c} :
                        \E n \in 1..Len(q) : q[n] = 0) =>
        /\ main_pc = "exited"
        /\ exit_code = exited(1)
        /\ "ContainsNulByte" \in log

-----------------------------------------------------------------------------
(* carrier_type.rs and carrier.rs: from_file.  An extension is its byte     *)
(* sequence.                                                                *)

\* the arms of the match in CarrierType::from_extension, as pairs of an
\* extension and its carrier type
EXTENSIONS ==
    {<<e, "_3gp">> : e \in {<<51, 103, 112>>, <<51, 103, 112, 112>>, <<51, 103, 50>>, <<51, 103, 112, 50>>}}   \* 3gp 3gpp 3g2 3gp2
    \cup {<<e, "Aiff">> : e \in {<<97, 105, 102>>, <<97, 105, 102, 102>>}}   \* aif aiff
    \cup {<<e, "Flv">> : e \in {<<102, 108, 118>>, <<102, 52, 118>>, <<102, 52, 112>>, <<102, 52, 97>>, <<102, 52, 98>>}}   \* flv f4v f4p f4a f4b
    \cup {<<e, "Jpeg">> : e \in {<<106, 112, 103>>, <<106, 112, 101>>, <<106, 112, 101, 103>>, <<106, 102, 105, 102>>}}   \* jpg jpe jpeg jfif
    \cup {<<e, "Mp3">> : e \in {<<109, 112, 51>>}}   \* mp3
    \cup {<<e, "Mp4">> : e \in {<<109, 112, 52>>, <<109, 112, 103, 52>>, <<109, 112, 101, 103, 52>>, <<109, 52, 97>>, <<109, 52, 118>>, <<109, 112, 52, 97>>}}   \* mp4 mpg4 mpeg4 m4a m4v mp4a
    \cup {<<e, "Au">> : e \in {<<97, 117>>, <<115, 110, 100>>}}   \* au snd
    \cup {<<e, "Pcx">> : e \in {<<112, 99, 120>>}}   \* pcx
    \cup {<<e, "Pdf">> : e \in {<<112, 100, 102>>}}   \* pdf
    \cup {<<e, "Png">> : e \in {<<112, 110, 103>>}}   \* png
    \cup {<<e, "Swf">> : e \in {<<115, 119, 102>>}}   \* swf
    \cup {<<e, "Tga">> : e \in {<<116, 103, 97>>, <<118, 100, 97>>, <<105, 99, 98>>, <<118, 115, 116>>}}   \* tga vda icb vst
    \cup {<<e, "Vob">> : e \in {<<118, 111, 98>>}}   \* vob
    \cup {<<e, "Wav">> : e \in {<<119, 97, 118>>, <<119, 97, 118, 101>>}}   \* wav wave

\* CarrierType::from_extension
from_extension(extension) ==
    IF \E arm \in EXTENSIONS : arm[1] = extension
    THEN Some((CHOOSE arm \in EXTENSIONS : arm[1] = extension)[2])
    ELSE None

\* what carrier::from_reader returns for the Err that wav::parse returned:
\* the `?` of from_reader converts the ParsingError
from_reader_error == error_from_parsing_error(wav_result)

\* C14: whenever a read of the WAV parser fails, from_reader returns
\* UnknownFiletype if the io::Error is an UnexpectedEof and IoError carrying
\* that error otherwise; the parse never goes on after a failed read.
C14_ReadFailuresSurface ==
    io_error.some =>
        /\ wav_pc = "returned" /\ wav_result.kind = "Err"
        /\ from_reader_error =
              IF io_error.v = "UnexpectedEof"
              THEN [error |-> "UnknownFiletype", io |-> None]
              ELSE [error |-> "IoError", io |-> io_error]
C14_Witness ==
    /\ io_error = Some("Other") /\ processed_fmt_subchunk
    /\ wav_result = [kind |-> "Err", error |-> "IoError", io |-> Some("Other")]

to_ascii_uppercase(b) == IF b >= 97 /\ b <= 122 THEN b - 32 ELSE b
lowercase(e) == [n \in 1..Len(e) |-> to_ascii_lowercase(e[n])]
uppercase(e) == [n \in 1..Len(e) |-> to_ascii_uppercase(e[n])]
capitalized(e) == [n \in 1..Len(e) |-> IF n = 1 THEN to_ascii_uppercase(e[n]) ELSE e[n]]

\* OsStr::to_str: the bytes F8..FF occur in no UTF-8 string, and the
\* extensions below have no other byte above 7F
to_str(e) == IF \E n \in 1..Len(e) : e[n] >= 248 THEN None ELSE Some(e)

\* Paths: what File::open does with the path, and its extension: a listed
\* one in lower, upper or mixed case, another one, or none.
ListedExtensions == {arm[1] : arm \in EXTENSIONS}
OtherExtensions == {<<116, 120, 116>>, <<119, 97, 118, 120>>, <<119, 97>>, <<255>>}
PathExtensions ==
    {None} \cup {Some(e) : e \in OtherExtensions}
        \cup UNION {{Some(e), Some(uppercase(e)), Some(capitalized(e))} : e \in ListedExtensions}
OpenOutcomes == {"Ok", "NotFound", "PermissionDenied"}
\* what from_reader does with a WAV file
FromReaderOutcomes == {"Ok", "UnknownFiletype", "CarrierTooSmall", "IoError", "panic"}

FromFileInit ==
    /\ path \in [open : OpenOutcomes, extension : PathExtensions]
    /\ file_type = None /\ from_file_result = None /\ from_file_log = {}
    /\ from_file_pc = "start"

IoError(kind) == [kind |-> "Err", error |-> "IoError", io |-> Some(kind)]
UnknownFiletype == [kind |-> "Err", error |-> "UnknownFiletype", io |-> None]

\* line 117: File::open(path)?, without a look at the path
OpenFileIgnoringFailure ==
    /\ from_file_pc = "start"
    /\ from_file_pc' = "opened"
    /\ UNCHANGED <<path, file_type, from_file_result, from_file_log>>
    /\ UNCHANGED <<overflow_checks, efVars, chainVars, carVars, mainVars, wavVars, hdVars, bmVars>>

\* line 117: File::open(path)?
OpenFile ==
    /\ from_file_pc = "start"
    /\ IF path.open = "Ok"
       THEN from_file_pc' = "opened" /\ UNCHANGED from_file_result
       ELSE from_file_pc' = "returned" /\ from_file_result' = Some(IoError(path.open))
    /\ UNCHANGED <<path, file_type, from_file_log>>
    /\ UNCHANGED <<overflow_checks, efVars, chainVars, carVars, mainVars, wavVars, hdVars, bmVars>>

\* lines 123-125: the carrier type of the extension
file_type_of(p) ==
    IF ~p.extension.some THEN None
    ELSE IF ~to_str(p.extension.v).some THEN None
    ELSE from_extension(to_str(p.extension.v).v)

DetectType ==
    /\ from_file_pc = "opened"
    /\ file_type' = file_type_of(path)
    /\ IF file_type_of(path).some
       THEN from_file_pc' = "typed" /\ UNCHANGED from_file_result
       ELSE from_file_pc' = "returned" /\ from_file_result' = Some(UnknownFiletype)
    /\ UNCHANGED <<path, from_file_log>>
    /\ UNCHANGED <<overflow_checks, efVars, chainVars, carVars, mainVars, wavVars, hdVars, bmVars>>

\* lines 127-128 with from_reader's match on the type (lines 144-147)
ReadFrom ==
    /\ from_file_pc = "typed"
    /\ \E outcome \in FromReaderOutcomes :
          LET r == IF file_type.v # "Wav" THEN "panic" ELSE outcome
          IN /\ from_file_pc' = CASE r = "Ok" -> "read"
                                  [] r = "panic" -> "panicked"
                                  [] OTHER -> "returned"
             /\ from_file_result' =
                   CASE r = "Ok" -> None
                     [] r = "panic" -> Some([kind |-> "panic"])
                     [] r = "IoError" -> Some(IoError("Other"))
                     [] OTHER -> Some([kind |-> "Err", error |-> r, io |-> None])
    /\ UNCHANGED <<path, file_type, from_file_log>>
    /\ UNCHANGED <<overflow_checks, efVars, chainVars, carVars, mainVars, wavVars, hdVars, bmVars>>

\* lines 131-135: the warning about trailing data, and the return
TrailingData ==
    /\ from_file_pc = "read"
    /\ \E has_data_left \in {"true", "false", "Err"} :
          /\ from_file_result' = IF has_data_left = "Err" THEN Some(IoError("Other"))
                                 ELSE Some([kind |-> "Ok"])
          /\ from_file_log' = IF has_data_left = "true" THEN {"has trailing data"} ELSE {}
    /\ from_file_pc' = "returned"
    /\ UNCHANGED <<path, file_type>>
    /\ UNCHANGED <<overflow_checks, efVars, chainVars, carVars, mainVars, wavVars, hdVars, bmVars>>

InitFromFile ==
    FromFileInit /\ overflow_checks \in BOOLEAN /\ FileIdle /\ ChainIdle /\ CarrierIdle
    /\ MainIdle /\ WavIdle /\ HammingIdle /\ BitMaskIdle
NextFromFile == OpenFile \/ DetectType \/ ReadFrom \/ TrailingData
SpecFromFile == InitFromFile /\ [][NextFromFile]_vars

\* C13: from_extension maps every listed extension, in any mix of upper and
\* lower case, to its carrier type and every other string to None, which
\* from_file returns as UnknownFiletype.
C13_ExtensionLookupIgnoresCase ==
    (from_file_pc \notin {"idle", "start", "opened"} /\ path.open = "Ok"
        /\ path.extension.some /\ to_str(path.extension.v).some) =>
        LET listed == from_extension(lowercase(path.extension.v))
        IN /\ file_type = listed
           /\ ~listed.some => from_file_result = Some(UnknownFiletype)

\* C15: from_file on a path that does not exist returns Err(IoError) of
\* kind NotFound, whatever the extension is.
C15_MissingFileIsNotFound ==
    (from_file_pc \notin {"idle", "start"} /\ path.open = "NotFound") =>
        /\ from_file_pc = "returned"
        /\ from_file_result = Some(IoError("NotFound"))
C15_Witness ==
    /\ from_file_pc = "returned" /\ path.open = "NotFound"
    /\ path.extension = Some(<<116, 120, 116>>)
    /\ from_file_result = Some(IoError("NotFound"))

-----------------------------------------------------------------------------
\* passwords.rs: compute_hamming_distance on pairs of byte strings

\* Inputs: every string of at most MaxStringLength bytes of a small
\* alphabet, and some strings of up to 32 bytes.
MaxStringLength == 2
HammingAlphabet == {0, 1, 97, 255}
LongStrings == {[n \in 1..32 |-> 255], [n \in 1..32 |-> 0], [n \in 1..31 |-> 97],
                [n \in 1..32 |-> IF n = 32 THEN 98 ELSE 97]}
HammingStrings ==
    LongStrings \cup UNION {[1..n -> HammingAlphabet] : n \in 0..MaxStringLength}

HammingInit ==
    /\ string_x \in HammingStrings /\ string_y \in HammingStrings
    /\ d_xy = None /\ d_yx = None /\ hd_pc = "start"

\* compute_hamming_distance(x, y)
ComputeDistance ==
    /\ hd_pc = "start"
    /\ LET r == compute_hamming_distance(string_x, string_y)
       IN /\ d_xy' = Some(r)
          /\ hd_pc' = IF r.panic THEN "panicked" ELSE "first"
    /\ UNCHANGED <<string_x, string_y, d_yx>>
    /\ UNCHANGED <<overflow_checks, efVars, chainVars, carVars, mainVars, wavVars, ffVars, bmVars>>

\* compute_hamming_distance(y, x)
ComputeSwapped ==
    /\ hd_pc = "first"
    /\ LET r == compute_hamming_distance(string_y, string_x)
       IN /\ d_yx' = Some(r)
          /\ hd_pc' = IF r.panic THEN "panicked" ELSE "done"
    /\ UNCHANGED <<string_x, string_y, d_xy>>
    /\ UNCHANGED <<overflow_checks, efVars, chainVars, carVars, mainVars, wavVars, ffVars, bmVars>>

InitHamming ==
    HammingInit /\ overflow_checks \in BOOLEAN /\ FileIdle /\ ChainIdle /\ CarrierIdle
    /\ MainIdle /\ WavIdle /\ FromFileIdle /\ BitMaskIdle
NextHamming == ComputeDistance \/ ComputeSwapped
SpecHamming == InitHamming /\ [][NextHamming]_vars

\* C16: compute_hamming_distance is symmetric and is 0 on equal strings,
\* for all byte strings of length 0..32, the empty one included.
C16_SymmetricAndZeroOnEqual ==
    hd_pc \notin {"idle", "start"} =>
        /\ ~d_xy.v.panic
        /\ hd_pc # "first" => /\ ~d_yx.v.panic
                              /\ d_xy.v.val = d_yx.v.val
                              /\ string_x = string_y => d_xy.v.val = 0

\* the bits at which the two strings differ, the shorter one extended with
\* zero bytes
differing_bits ==
    LET longest == IF Len(string_x) > Len(string_y) THEN Len(string_x) ELSE Len(string_y)
        byte(s, n) == IF n <= Len(s) THEN s[n] ELSE 0
        bit(s, n, k) == (byte(s, n) \div (2 ^ k)) % 2
    IN {<<n, k>> \in (1..longest) \X (0..7) : bit(string_x, n, k) # bit(string_y, n, k)}
longest_length == IF Len(string_x) > Len(string_y) THEN Len(string_x) ELSE Len(string_y)

\* C17: for x and y not both empty, compute_hamming_distance(x, y) is
\* floor(100 * popcount(x XOR y) / (8 * max(len x, len y))), the shorter
\* string extended with zero bytes, and lies in 0..100.
C17_DistanceFormula ==
    (hd_pc \notin {"idle", "start"} /\ longest_length > 0) =>
        /\ ~d_xy.v.panic
        /\ d_xy.v.val = (100 * Cardinality(differing_bits)) \div (8 * longest_length)
        /\ d_xy.v.val \in 0..100
C17_Witness ==
    /\ hd_pc = "done" /\ Len(string_x) = 1 /\ Len(string_y) = 32
    /\ d_xy = Some([panic |-> FALSE, val |-> 96])

-----------------------------------------------------------------------------
\* carrier.rs, lines 109-114: EncryptedCarrier::selected_bit_count
selected_bit_count(c) == Len(c.data)

\* C18: for a carrier c that from_reader returned, c.selected_bit_count()
\* is the number of data bits selected: a multiple of 128, with
\* len(c.data) = len(c.decoy) = c.selected_bit_count() / 8.
C18_SelectedBitCountCountsBits ==
    (car_pc = "returned" /\ carrier.kind = "Ok") =>
        /\ selected_bit_count(carrier) % 128 = 0
        /\ Len(carrier.data) = selected_bit_count(carrier) \div 8
        /\ Len(carrier.decoy) = selected_bit_count(carrier) \div 8

-----------------------------------------------------------------------------
\* wav.rs: what the subchunk loop does with a subchunk's header

\* the subchunk at pos, read in full up to its size field
AtSubchunk == InLoop /\ pos + 8 <= readable
IsFmt == eq_ignore_ascii_case(bytes_at(pos, 4), FMT)
IsData == eq_ignore_ascii_case(bytes_at(pos, 4), DATA)
ReturnsInvalidFormat ==
    /\ wav_pc' = "returned"
    /\ wav_result' = [kind |-> "Err", error |-> "InvalidFormat", io |-> None]

\* the fields of the fmt subchunk at pos that the claim rejects
RejectedFmtFields ==
    LET audio_format == u16_at(pos + 8)
        num_channels == u16_at(pos + 10)
        block_align  == u16_at(pos + 20)
    IN \/ audio_format # 1
       \/ num_channels = 0
       \/ num_channels # 0 /\ (block_align \div num_channels) * 8 # 16

\* C19: parse returns Err(InvalidFormat) for every fmt subchunk whose
\* audio_format is not 1, whose num_channels is 0 or whose
\* block_align / num_channels * 8 is not 16, and for every data subchunk of
\* declared size 0.
C19_BadFmtAndEmptyDataRejected ==
    [][(AtSubchunk /\ \/ IsFmt /\ pos + 24 <= readable /\ RejectedFmtFields
                      \/ IsData /\ bytes_at(pos + 4, 4) = u32(0))
          => ReturnsInvalidFormat]_vars

\* C20: parse returns Err(InvalidFormat) for every subchunk, of any kind,
\* whose declared size has its high bit set.
C20_HighBitSizeRejected ==
    [][(AtSubchunk /\ bytes_at(pos + 4, 4)[4] >= 128) => ReturnsInvalidFormat]_vars

\* C21: parse returns an error for a file whose fmt subchunk declares more
\* bytes than the 0x400000 of OpenPuff's buffer, instead of skipping the
\* extra bytes and going on.
C21_OversizeFmtRejected ==
    [][(AtSubchunk /\ IsFmt /\ less(OPENPUFF_FMT_BUFFER, bytes_at(pos + 4, 4)))
          => (wav_pc' = "returned" /\ wav_result'.kind = "Err")]_vars

\* a second fmt, a second data, or a data with no fmt before it among the
\* subchunk IDs read
OutOfOrder(ids) ==
    \/ \E m, n \in 1..Len(ids) : m < n /\ ids[m] = ids[n] /\ ids[m] \in {"fmt", "data"}
    \/ \E n \in 1..Len(ids) : ids[n] = "data" /\ \A m \in 1..(n - 1) : ids[m] # "fmt"

\* C22: in every sequence of subchunks that parse accepts, fmt and data
\* occur at most once each and data only after fmt; a second fmt, a second
\* data or a data before any fmt makes parse return Err(InvalidFormat),
\* whatever unrecognized subchunks lie in between.
C22_FmtThenDataOnceEach ==
    /\ (wav_pc = "returned" /\ wav_result.kind = "Ok") => ~OutOfOrder(subchunk_ids)
    /\ OutOfOrder(subchunk_ids) =>
          /\ wav_pc = "returned"
          /\ wav_result = [kind |-> "Err", error |-> "InvalidFormat", io |-> None]
C22_Witness ==
    /\ subchunk_ids = <<"fmt", "other", "data", "other", "data">>
    /\ wav_pc = "returned"
    /\ wav_result = [kind |-> "Err", error |-> "InvalidFormat", io |-> None]

\* the samples of the data subchunk at pos, as the step that reads it
\* finds them
samples_in_data ==
    LET num_samples ==
            value(wmul(div_digits(bytes_at(pos + 4, 4), metadata.v.block_align, 0),
                       metadata.v.num_channels).val)
    IN [k \in 1..num_samples |-> byte_at(pos + 8 + 2 * k - 1) + 256 * byte_at(pos + 8 + 2 * k)]
\* the number of 1-bits of (s AND 0x7FFF) >> 3 lies in 1..10
OnesInRange(s) == Cardinality({k \in 3..14 : (s \div (2 ^ k)) % 2 = 1}) \in 1..10
SelectedSamples(samples) == SelectSeq(samples, OnesInRange)

\* C23: should_choose_sample(s, 4) is true exactly when the number of 1-bits
\* of (s AND 0x7FFF) >> 3 lies in 1..10, and extract_bits_from_data yields
\* bit 0 of each selected sample, in sample order, and nothing else.
C23_SelectedSamplesGiveTheirLowBit ==
    [][(AtSubchunk /\ IsData /\ ~bit_storage.some /\ bit_storage'.some) =>
          LET samples == samples_in_data
              selected == SelectedSamples(samples)
          IN /\ \A k \in 1..Len(samples) :
                    should_choose_sample(samples[k]) = OnesInRange(samples[k])
             /\ Len(bit_storage'.v) = Len(selected)
             /\ \A k \in 1..Len(selected) : bit_storage'.v[k] = selected[k] % 2]_vars
C23_Witness ==
    /\ Len(input) = 48 /\ u16_at(44) = 40953 /\ u16_at(46) = 32768
    /\ bit_storage = Some(<<1>>)

-----------------------------------------------------------------------------
\* carrier.rs: the routing of the bits of U in from_reader

\* bit j of a byte, j = 1 for the most significant one
bit_of(byte, j) == (byte \div (2 ^ (8 - j))) % 2

\* C24: with S >= 128 the iv is the first 2048 bits of U packed MSB-first,
\* data bit k is U[2048 + k*D], decoy bit k is U[2048 + k*D + 1], the other
\* bits among the (S-1)*D + 2 consumed go to other_bits in order; data and
\* decoy get S bits each, other_bits (S-1)*(D-2), and U holds enough bits.
C24_BitsRoutedByPosition ==
    (car_pc = "returned" /\ carrier.kind = "Ok" /\ SelectedCount(unwhitened_bits) >= 128) =>
        LET U == unwhitened_bits
            D == selection_level
            S == SelectedCount(unwhitened_bits)
        IN /\ \A m \in 1..256, j \in 1..8 : bit_of(carrier.iv[m], j) = U[8 * (m - 1) + j]
           /\ 8 * Len(carrier.data) = S /\ 8 * Len(carrier.decoy) = S
           /\ \A k \in 0..(S - 1) :
                 /\ bit_of(carrier.data[(k \div 8) + 1], (k % 8) + 1) = U[2048 + k * D + 1]
                 /\ bit_of(carrier.decoy[(k \div 8) + 1], (k % 8) + 1) = U[2048 + k * D + 2]
           /\ Len(carrier.other_bits) = (S - 1) * (D - 2)
           /\ \A n \in 1..Len(carrier.other_bits) :
                 carrier.other_bits[n] =
                    U[2048 + ((n - 1) \div (D - 2)) * D + 2 + ((n - 1) % (D - 2)) + 1]
           /\ 2048 + (S - 1) * D + 2 <= Len(U)
C24_Witness ==
    /\ car_pc = "returned" /\ carrier.kind = "Ok" /\ selection_level = 3
    /\ SelectedCount(unwhitened_bits) = 256 /\ Len(carrier.other_bits) = 255

-----------------------------------------------------------------------------
\* carrier.rs: generate_whitening_lookup_table, one get_dword() at a time

\* What csprng.get_dword() % 13 yields, as a sequence repeated for ever: the
\* generator is the external libObfuscate.  The last two streams never
\* yield every residue.
DwordStreams ==
    {[n \in 1..13 |-> n - 1],
     [n \in 1..13 |-> 13 - n],
     <<12, 12, 5, 0, 5, 7, 1, 11, 3, 12, 9, 2, 4, 4, 8, 10, 0, 6>>,
     [n \in 1..26 |-> (n - 1) \div 2],
     [n \in 1..39 |-> (5 * (n \div 3)) % 13],
     [n \in 1..12 |-> n - 1],
     <<7>>}
EveryResidueAppears == \A r \in 0..12 : \E n \in 1..Len(stream) : stream[n] = r
\* the indices of the table that are looked at
TableIndices == {0, 1, 2, 4095, 4096, 5461, 8190, 8191}

BitMaskInit ==
    /\ stream \in DwordStreams /\ stream_pos = 1
    /\ masks = [j \in 1..13 |-> 0] /\ mask_index = 0
    /\ whitening_table = None /\ bm_pc = "loop"

\* lines 40-47 without the test of line 43
DrawDwordOverwriting ==
    /\ bm_pc = "loop" /\ mask_index < 13
    /\ masks' = [masks EXCEPT ![stream[stream_pos] + 1] = 2 ^ (mask_index % 32)]
    /\ mask_index' = mask_index + 1
    /\ stream_pos' = (stream_pos % Len(stream)) + 1
    /\ UNCHANGED <<stream, whitening_table, bm_pc>>
    /\ UNCHANGED <<overflow_checks, efVars, chainVars, carVars, mainVars, wavVars, ffVars,
                   hdVars>>

\* lines 40-47: one pass of `while index < 13`
DrawDword ==
    /\ bm_pc = "loop" /\ mask_index < 13
    /\ LET bit_mask_index == stream[stream_pos]
       IN IF masks[bit_mask_index + 1] = 0
          THEN /\ masks' = [masks EXCEPT ![bit_mask_index + 1] = 2 ^ (mask_index % 32)]
               /\ mask_index' = mask_index + 1
          ELSE UNCHANGED <<masks, mask_index>>
    /\ stream_pos' = (stream_pos % Len(stream)) + 1
    /\ UNCHANGED <<stream, whitening_table, bm_pc>>
    /\ UNCHANGED <<overflow_checks, efVars, chainVars, carVars, mainVars, wavVars, ffVars,
                   hdVars>>

\* line 40: the loop is over
BitMaskFilled ==
    /\ bm_pc = "loop" /\ mask_index >= 13
    /\ bm_pc' = "table"
    /\ UNCHANGED <<stream, stream_pos, masks, mask_index, whitening_table>>
    /\ UNCHANGED <<overflow_checks, efVars, chainVars, carVars, mainVars, wavVars, ffVars,
                   hdVars>>

\* lines 49-94: the row that csprng.get_byte() % 20 selects, and the table
FillTable ==
    /\ bm_pc = "table"
    /\ \E byte \in 0..19 :
          whitening_table' =
              Some([i \in TableIndices |-> whitening_entry(i, masks, BIT_ASSEMBLY_ORDER[byte + 1])])
    /\ bm_pc' = "done"
    /\ UNCHANGED <<stream, stream_pos, masks, mask_index>>
    /\ UNCHANGED <<overflow_checks, efVars, chainVars, carVars, mainVars, wavVars, ffVars,
                   hdVars>>

InitBitMask ==
    BitMaskInit /\ overflow_checks \in BOOLEAN /\ FileIdle /\ ChainIdle /\ CarrierIdle
    /\ MainIdle /\ WavIdle /\ FromFileIdle /\ HammingIdle
NextBitMask == DrawDword \/ BitMaskFilled \/ FillTable
\* the loop goes on as long as its condition holds, and ends when it fails
SpecBitMask == InitBitMask /\ [][NextBitMask]_vars /\ WF_vars(DrawDword \/ BitMaskFilled)

\* C25: when every residue 0..12 eventually appears among the CSPRNG
\* outputs the bit_mask loop terminates; it ends with bit_mask holding the
\* masks 1<<0 .. 1<<12 once each, never overwrites an entry that is set,
\* and every entry of the table is below 64.
C25_BitMaskIsAPermutation ==
    /\ [](bm_pc \in {"table", "done"} =>
             /\ {masks[j] : j \in 1..13} = {2 ^ k : k \in 0..12}
             /\ \A j, k \in 1..13 : masks[j] = masks[k] => j = k)
    /\ [][\A j \in 1..13 : masks[j] # 0 => masks'[j] = masks[j]]_vars
    /\ [](bm_pc = "done" => \A i \in TableIndices : whitening_table.v[i] \in 0..63)
    /\ (bm_pc = "loop" /\ EveryResidueAppears) ~> (bm_pc = "table")
C25_Witness ==
    /\ bm_pc = "done" /\ Len(stream) = 18 /\ masks[13] = 1 /\ masks[7] = 4096
    /\ \E i \in TableIndices : whitening_table.v[i] > 0

-----------------------------------------------------------------------------
(* chain.rs: the embeddings of decrypt_carrier_chain and its two calls.     *)

\* C26: decrypt_carrier_chain takes the carriers in input order and returns
\* one CarrierEmbeddings per carrier, at the carrier's index, whose data and
\* decoy have the lengths of the carrier's; carrier 0 has prekey 0, and the
\* prekey and key of carrier i are computed from i and from the decrypted IV
\* and prekey of carrier i-1 alone, so that what is pushed for the first
\* carriers does not depend on the carriers that follow.
C26_OneEmbeddingPerCarrierInOrder ==
    /\ [](/\ Len(embeddings) = carrier_index
          /\ chain_pc = "returned" => Len(embeddings) = Len(encrypted_carriers)
          /\ \A i \in 1..Len(embeddings) :
                /\ embeddings[i].data.bytes = encrypted_carriers[i].data.bytes
                /\ embeddings[i].decoy.bytes = encrypted_carriers[i].decoy.bytes
          /\ carrier_index = 1 => previous_parameters.prekey = 0)
    /\ [][carrier_index' = carrier_index + 1 =>
             /\ Len(embeddings') = Len(embeddings) + 1
             /\ SubSeq(embeddings', 1, Len(embeddings)) = embeddings
             /\ prekey' = IF previous_parameters = None THEN 0
                          ELSE (previous_parameters.prekey
                                  + TermSum(previous_parameters.iv)) % 65536
             /\ key' = WrappedKey(prekey', carrier_index)]_vars

\* three carriers of different sizes were decrypted and the call returned
C26_Witness ==
    /\ chain_pc = "returned" /\ Len(embeddings) = 3 /\ prekey # 0
    /\ embeddings[1].data.bytes # embeddings[3].data.bytes

\* C27: two calls on the same carriers with different Passwords derive the
\* same prekey, the same key and the same decrypted IV for every carrier
\* (and stop at the same carrier when the arithmetic panics).
C27_KeyChainIgnoresPasswords ==
    (chain_pc # "idle" /\ twin.passwords # chain_passwords) =>
        /\ twin.key = key
        /\ twin.previous_parameters = previous_parameters
        /\ twin.chain_pc = chain_pc

\* both calls have decrypted three carriers, with Passwords that differ in
\* all of a, b and c
C27_Witness ==
    /\ chain_pc # "idle" /\ carrier_index = 3 /\ prekey # 0
    /\ twin.passwords.a # chain_passwords.a /\ twin.passwords.c # chain_passwords.c
    /\ twin.key = key /\ twin.previous_parameters.iv = previous_parameters.iv

-----------------------------------------------------------------------------
(* parser/wav.rs: totality, position and termination of parse.              *)

\* C28: parse is total: on every byte sequence it returns Ok,
\* Err(InvalidFormat) or Err(IoError) and never aborts on an arithmetic
\* fault.
C28_ParseNeverPanics == wav_pc # "panicked"

\* C29: at the start of every iteration of the subchunk loop the number of
\* bytes consumed since the WAVE form type is data_read: every subchunk ID
\* is read where the declared body of the previous subchunk ends.
C29_DataReadIsThePosition == InLoop => data_read = u32(pos - 12)

\* C30: every iteration of the subchunk loop either returns or leaves
\* data_read at least 8 above what it was, so that the loop runs at most
\* (S - 4) / 8 + 1 times for a declared RIFF size S.
C30_EveryIterationAdvances ==
    /\ [][(InLoop /\ wav_pc' = "subchunks") =>
             /\ ~wadd(data_read, u32(8)).overflow
             /\ ~less(data_read', wadd(data_read, u32(8)).val)]_vars
    /\ [](subchunk_ids # <<>> => Len(subchunk_ids) <= (value(data_size) \div 8) + 1)

=============================================================================
